---- MODULE Spec2Model ----
(***************************************************************************)
(* Model of silver's RIFF-family chunk walker (Chunky.get_chunks, _riff,   *)
(* _rf64, _skip_afsp in silver/audio/wave/chunky.py) and of the 'fmt '     *)
(* decoder (SWave._fmt in silver/audio/wave/wave.py).                      *)
(*                                                                         *)
(* A stream is a sequence of bytes (0..255).  A four character tag is the  *)
(* sequence of its four latin-1 codes: latin-1 decoding maps every byte to *)
(* one character, so comparing decoded strings is comparing byte tuples.   *)
(***************************************************************************)
EXTENDS Integers, Sequences, FiniteSets, TLC

(***************************************************************************)
(* Bounds of the model.                                                    *)
(***************************************************************************)
\* most bytes of chunks (identifier, size field, payload, pad) after the header
MaxBody == 24
\* a chunk's size field is in 0..MaxSize
MaxSize == 2
\* most bytes cut off the end of a stream that holds a chunk
MaxCut == 7
\* most 12-byte table records after the ds64 fields
MaxTable == 1

\* the channel counts and the channel masks of the fmt chunks decoded
MaxChannels == 2

MaxMask == 3

\* the most chunks the walker yields to all_chunks
MaxChunks == 4

\* the most 4-byte words a ds64 chunk holds after its table
MaxSlack == 1

(***************************************************************************)
(* Tags of the source, as latin-1 byte tuples.                             *)
(***************************************************************************)
TagRIFF == <<82, 73, 70, 70>>
TagRIFX == <<82, 73, 70, 88>>
TagRF64 == <<82, 70, 54, 52>>
TagBW64 == <<66, 87, 54, 52>>
TagFFIR == <<70, 70, 73, 82>>
TagFIRR == <<70, 73, 82, 82>>
TagWAVE == <<87, 65, 86, 69>>
TagXXXX == <<88, 88, 88, 88>>
TagDs64 == <<100, 115, 54, 52>>
TagData == <<100, 97, 116, 97>>
TagJUNK == <<74, 85, 78, 75>>
TagFLLR == <<70, 76, 76, 82>>
TagPAD == <<80, 65, 68, 32>>
TagMinf == <<109, 105, 110, 102>>
TagElm1 == <<101, 108, 109, 49>>
TagRegn == <<114, 101, 103, 110>>
TagUmid == <<117, 109, 105, 100>>
TagElmo == <<101, 108, 109, 111>>
TagDGDA == <<68, 71, 68, 65>>
TagOvwf == <<111, 118, 119, 102>>
TagAfsp == <<97, 102, 115, 112>>
TagBext == <<98, 101, 120, 116>>
TagFact == <<102, 97, 99, 116>>
TagFmt == <<102, 109, 116, 32>>
TagDISP == <<68, 73, 83, 80>>
TagLIST == <<76, 73, 83, 84>>

\* chunky.py: FALSE_SIZE = "0xffffffff", the hex() of the 4 bytes ff ff ff ff
FALSE_SIZE == <<255, 255, 255, 255>>
\* chunky.py: NULL_IDENTIFIER
NULL_IDENTIFIER == <<0, 0, 0, 0>>
\* chunky.py: IGNORE_CHUNKS
IGNORE_CHUNKS == {TagData, TagJUNK, TagFLLR, TagPAD}
\* chunky.py: OPTIONAL_IGNORE_CHUNKS
OPTIONAL_IGNORE_CHUNKS ==
    {TagMinf, TagElm1, TagRegn, TagUmid, TagElmo, TagDGDA, TagOvwf}

LITTLE_ENDIAN == "little"
BIG_ENDIAN == "big"
\* None, for the attributes that hold a string
None == "None"
\* an attribute that is None or holds a value: <<>> is None, <<v>> holds v
Null == <<>>
Some(v) == <<v>>
\* the value of Chunky.ds64 before a ds64 chunk is read (None, line 31)
NoDs64 == [chunk_identifier |-> None]

(***************************************************************************)
(* Sequences and integers.                                                 *)
(***************************************************************************)
Min(a, b) == IF a < b THEN a ELSE b
Max(a, b) == IF a < b THEN b ELSE a

Reverse(s) == [i \in 1..Len(s) |-> s[Len(s) + 1 - i]]

RECURSIVE Concat(_)
Concat(ss) == IF ss = <<>> THEN <<>> ELSE Head(ss) \o Concat(Tail(ss))

\* int.from_bytes(bs, byteorder), for any length of bs (b"" gives 0)
RECURSIVE FromLittle(_)
FromLittle(bs) == IF bs = <<>> THEN 0 ELSE Head(bs) + 256 * FromLittle(Tail(bs))

IntFromBytes(bs, byteorder) ==
    IF byteorder = LITTLE_ENDIAN THEN FromLittle(bs) ELSE FromLittle(Reverse(bs))

\* hex(int.from_bytes(bs, byteorder)) == FALSE_SIZE: the value 0xffffffff is
\* the value of the four bytes ff ff ff ff only, in either byte order, and of
\* no shorter read
IsFalseSize(bs) == bs = FALSE_SIZE

(***************************************************************************)
(* The input streams.  A stream is laid out from a description: the master *)
(* tag, the kind of container size, an optional ds64 chunk, and a list of  *)
(* chunks <<identifier, size>>; then `cut` bytes are cut off its end.  The *)
(* ds64 chunk holds its eight fields, `table` records of 12 bytes and      *)
(* `slack` more words that its size field counts.                          *)
(***************************************************************************)
Masters == {TagRIFF, TagRIFX, TagRF64, TagBW64, TagFFIR, TagFIRR, TagXXXX}

InputIds == {TagFmt, TagData, TagJUNK, TagMinf, TagBext, TagFact, TagAfsp}

Templates == [id : InputIds, size : 0..MaxSize]

\* the byte order the writer of the stream uses
WriterOrder(m) == IF m \in {TagRIFX, TagFFIR, TagFIRR} THEN BIG_ENDIAN ELSE LITTLE_ENDIAN

Enc32(n, byteorder) ==
    LET le == <<n % 256, (n \div 256) % 256, (n \div 65536) % 256, (n \div 16777216) % 256>>
    IN  IF byteorder = LITTLE_ENDIAN THEN le ELSE Reverse(le)

Filler(n) == [i \in 1..n |-> i]

\* one pad byte follows an odd payload, except after bext
PadBytes(t) == IF t.size % 2 = 1 /\ t.id # TagBext THEN <<0>> ELSE <<>>

\* in a stream with a ds64 chunk the size fields of data and fact are not used
ChunkBytes(t, byteorder, big) ==
    t.id \o (IF big /\ t.id \in {TagData, TagFact} THEN <<0, 0, 0, 0>>
             ELSE Enc32(t.size, byteorder))
         \o Filler(t.size) \o PadBytes(t)

ChunkLen(t) == 8 + t.size + Len(PadBytes(t))

RECURSIVE BodyLen(_)
BodyLen(body) == IF body = <<>> THEN 0 ELSE ChunkLen(Head(body)) + BodyLen(Tail(body))

\* the size the ds64 chunk gives for the chunks `id` of the body: that of the first
FirstSize(body, id) ==
    IF \E i \in 1..Len(body) : body[i].id = id
    THEN body[CHOOSE i \in 1..Len(body) :
                 /\ body[i].id = id
                 /\ \A j \in 1..(i - 1) : body[j].id # id].size
    ELSE 0

Ds64Bytes(in) ==
    LET bo == WriterOrder(in.master)
    IN  TagDs64 \o Enc32(28 + 12 * in.table + 4 * in.slack, bo)
          \o Enc32(0, bo) \o Enc32(0, bo)
          \o Enc32(FirstSize(in.body, TagData), bo) \o Enc32(0, bo)
          \o Enc32(FirstSize(in.body, TagFact), bo) \o Enc32(0, bo)
          \o Enc32(in.table, bo) \o Filler(12 * in.table) \o Filler(4 * in.slack)

AfterHeader(in) == (IF in.ds64 THEN Ds64Bytes(in) ELSE <<>>)
                     \o Concat([i \in 1..Len(in.body) |->
                                  ChunkBytes(in.body[i], WriterOrder(in.master), in.ds64)])

FullStream(in) ==
    LET rest == AfterHeader(in)
    IN  in.master
          \o (IF in.false THEN FALSE_SIZE ELSE Enc32(4 + Len(rest), WriterOrder(in.master)))
          \o TagWAVE \o rest

BuildStream(in) == LET full == FullStream(in) IN SubSeq(full, 1, Len(full) - in.cut)

Bodies ==
    { b \in UNION { [1..n -> Templates] : n \in 0..(MaxBody \div 8) } : BodyLen(b) <= MaxBody }

\* the containers whose streams are given every body; the others get one chunk at most
Deep(in) ==
    \/ in.master \in {TagRIFF, TagRIFX} /\ ~in.false /\ ~in.ds64
    \/ in.master \in {TagRF64, TagBW64} /\ in.false /\ in.ds64

Inputs ==
    { in \in [master : Masters, false : BOOLEAN, ds64 : BOOLEAN, table : 0..MaxTable,
              slack : 0..MaxSlack, body : Bodies, cut : 0..(12 + 36 + 12 * MaxTable)] :
        /\ in.ds64 => in.false
        /\ ~in.ds64 => in.table = 0 /\ in.slack = 0
        /\ Len(in.body) > 1 => Deep(in) /\ in.cut = 0
        /\ Len(in.body) = 1 => in.cut <= MaxCut
        /\ Len(in.body) = 0 => in.cut <= 12 + (IF in.ds64 THEN 36 + 12 * in.table ELSE 0) }

(***************************************************************************)
(* The state: the stream and the flag given to get_chunks, the stream's    *)
(* position, the attributes of the Chunky object, the chunks yielded so    *)
(* far, and the exception get_chunks ended with.                           *)
(***************************************************************************)
VARIABLES input, stream, ignore, pc, pos, master, byteorder, formtype, ds64,
          walk, yielded, error, refpos

\* the 'fmt ' decoder of SWave: the arguments of the call, what the call
\* returned or raised, and the attributes bitrate and bitrate_long it sets
VARIABLES fmtArgs, fmtRet, bitrate, bitrate_long

\* what the older decoder, WaveFormat of ck_fmt.py, returned or raised on the
\* same arguments
VARIABLE legacyRet

fmtVars == <<fmtArgs, fmtRet, bitrate, bitrate_long, legacyRet>>

\* the registry, SWave.all_chunks: the chunks the walker has yielded to it,
\* self.chunks, the local chunk_counts, the chunk attributes of the object,
\* one entry for each dispatch, the exception that ended all_chunks, and
\* self.chunk_ids
VARIABLES raw, chunks, chunk_counts, attrs, calls, allRaised, chunk_ids

asmVars == <<raw, chunks, chunk_counts, attrs, calls, allRaised, chunk_ids>>

\* what surface of signatures.py returned on the stream: Null before the call,
\* then Some of its result (Null for Python's None, Some of the Format record)
VARIABLE format

vars == <<input, stream, ignore, pc, pos, master, byteorder, formtype, ds64,
          walk, yielded, error, refpos, fmtArgs, fmtRet, bitrate, bitrate_long,
          legacyRet, raw, chunks, chunk_counts, attrs, calls, allRaised, chunk_ids,
          format>>

\* all_chunks has not run
AsmIdle ==
    /\ raw = <<>>
    /\ chunks = <<>>
    /\ chunk_counts = <<>>
    /\ attrs = <<>>
    /\ calls = <<>>
    /\ allRaised = None
    /\ chunk_ids = Null

\* no call of the decoder yet
NoFmtArgs == [identifier |-> <<>>, size |-> 0, data |-> <<>>]
NoFmtRet == [raised |-> None, chunk |-> Null]

\* stream.read(n) at position p: the bytes there are, none past the end
StreamRead(p, n) == SubSeq(stream, p + 1, Min(p + n, Len(stream)))

\* stream.seek(offset, 1) at position p
SeekCur(p, offset) == p + offset

\* a mutant: every recognized master is little-endian
get_byteorder_AllLittle(m) ==
    IF m \in {TagRIFF, TagBW64, TagRF64, TagRIFX, TagFIRR} THEN LITTLE_ENDIAN ELSE "raise"

\* Chunky.get_byteorder; "raise" stands for the ValueError
get_byteorder(m) ==
    IF m \in {TagRIFF, TagBW64, TagRF64} THEN LITTLE_ENDIAN
    ELSE IF m \in {TagRIFX, TagFIRR} THEN BIG_ENDIAN
    ELSE "raise"

\* get_chunks, line 66: the masters walked by _riff
RiffMasters == {TagRIFF, TagRIFX, TagFIRR, TagBW64}

\* a mutant: the size of bext is made even too
PadSize_NoExempt(id, size) == IF size % 2 # 0 THEN size + 1 ELSE size

\* _riff and _rf64: the size is made even, except that of bext
PadSize(id, size) == IF size % 2 # 0 /\ id # TagBext THEN size + 1 ELSE size

\* a mutant: the ignore flag is not honoured
SkipPayload_FlagDropped(id, ign) == id \in IGNORE_CHUNKS

\* _riff and _rf64: the chunks whose payload is not read
SkipPayload(id, ign) == id \in IGNORE_CHUNKS \/ (ign /\ id \in OPTIONAL_IGNORE_CHUNKS)

\* a mutant: every payload is read
ChunkData_NoSkip(id, p, size, ign, all) == StreamRead(p, size)

\* _riff and _rf64: chunk_data, "" or stream.read(chunk_size); `all` is FALSE in
\* the walker, TRUE in the reference walker that reads every payload
ChunkData(id, p, size, ign, all) ==
    IF ~all /\ SkipPayload(id, ign) THEN <<>> ELSE StreamRead(p, size)

\* a mutant: the seek does not subtract the bytes already read
NextChunk_NoSub(p, size, dat) == SeekCur(p + Len(dat), size)

\* _riff and _rf64: the position after stream.seek(chunk_size - len(chunk_data), 1),
\* the payload starting at p
NextChunk(p, size, dat) == SeekCur(p + Len(dat), size - Len(dat))

\* _rf64: low + (high << 32)
Size64(low, high) == low + high * 65536 * 65536

\* a mutant: the scan does not go back to the start of the marker
RECURSIVE skip_afsp_NoBackup(_)
skip_afsp_NoBackup(p) ==
    LET next == StreamRead(p, 4)
    IN  IF Len(next) < 4 THEN p + Len(next)
        ELSE IF next \in {TagDISP, TagLIST} THEN p + 4
        ELSE skip_afsp_NoBackup(SeekCur(p + 4, -3))

\* _skip_afsp, from position p: the position it leaves the stream at
RECURSIVE skip_afsp(_)
skip_afsp(p) ==
    LET next == StreamRead(p, 4)
    IN  IF Len(next) < 4 THEN p + Len(next)
        ELSE IF next \in {TagDISP, TagLIST} THEN SeekCur(p + 4, -4)
        ELSE skip_afsp(SeekCur(p + 4, -3))

NoChunk == [identifier |-> <<>>, size |-> 0, data |-> <<>>, idAt |-> 0, at |-> 0]

\* one turn of the loop of _riff, from position p
RiffIter(p, ign, all) ==
    LET idb == StreamRead(p, 4)
        p1 == p + Len(idb)
        sb == StreamRead(p1, 4)
        p2 == p1 + Len(sb)
        size == PadSize(idb, IntFromBytes(sb, byteorder))
        dat == ChunkData(idb, p2, size, ign, all)
    IN  IF Len(idb) < 4 THEN [kind |-> "break", pos |-> p1, chunk |-> NoChunk]
        ELSE IF idb = TagAfsp
             THEN [kind |-> "continue", pos |-> skip_afsp(p1), chunk |-> NoChunk]
        ELSE IF Len(sb) < 4 THEN [kind |-> "break", pos |-> p2, chunk |-> NoChunk]
        ELSE [kind |-> "yield", pos |-> NextChunk(p2, size, dat),
              chunk |-> [identifier |-> idb, size |-> size, data |-> dat,
                         idAt |-> p, at |-> p2]]

\* a mutant: data and fact take the size of their own size field
Rf64Iter_OwnSize(p, ign, all) == RiffIter(p, ign, all)

\* one turn of the loop of _rf64, from position p
Rf64Iter(p, ign, all) ==
    LET idb == StreamRead(p, 4)
        p1 == p + Len(idb)
        sb == StreamRead(p1, 4)
        p2 == p1 + Len(sb)
        size == PadSize(idb,
                  IF idb = TagData THEN Size64(ds64.data_low_size, ds64.data_high_size)
                  ELSE IF idb = TagFact
                       THEN Size64(ds64.sample_low_count, ds64.sample_high_count)
                  ELSE IntFromBytes(sb, byteorder))
        dat == ChunkData(idb, p2, size, ign, all)
    IN  IF Len(idb) < 4 THEN [kind |-> "break", pos |-> p1, chunk |-> NoChunk]
        ELSE IF idb = TagAfsp
             THEN [kind |-> "continue", pos |-> skip_afsp(p1), chunk |-> NoChunk]
        ELSE IF idb \notin {TagData, TagFact} /\ Len(sb) < 4
             THEN [kind |-> "break", pos |-> p2, chunk |-> NoChunk]
        ELSE [kind |-> IF idb # NULL_IDENTIFIER THEN "yield" ELSE "continue",
              pos |-> NextChunk(p2, size, dat),
              chunk |-> [identifier |-> idb, size |-> size, data |-> dat,
                         idAt |-> p, at |-> p2]]

Init ==
    /\ input \in Inputs
    /\ stream = BuildStream(input)
    /\ ignore \in BOOLEAN
    /\ pc = "start"
    /\ pos = 0
    /\ master = Null
    /\ byteorder = None
    /\ formtype = Null
    /\ ds64 = NoDs64
    /\ walk = None
    /\ yielded = <<>>
    /\ error = None
    /\ refpos = 0
    /\ fmtArgs = NoFmtArgs
    /\ fmtRet = NoFmtRet
    /\ bitrate = Null
    /\ bitrate_long = Null
    /\ legacyRet = NoFmtRet
    /\ AsmIdle
    /\ format = Null

\* get_chunks, lines 49-69: the 12-byte header and the choice of the walk
GetChunks ==
    /\ pc = "start"
    /\ LET m == StreamRead(0, 4)
           p1 == Len(m)
           master_size_bytes == StreamRead(p1, 4)
           p2 == p1 + Len(master_size_bytes)
           form == StreamRead(p2, 4)
           p3 == p2 + Len(form)
       IN  /\ master' = Some(m)
           /\ IF get_byteorder(m) = "raise"
              THEN /\ error' = "InvalidMaster"
                   /\ pc' = "done"
                   /\ pos' = p1
                   /\ UNCHANGED <<byteorder, formtype, walk>>
              ELSE /\ byteorder' = get_byteorder(m)
                   /\ formtype' = Some(form)
                   /\ pos' = p3
                   /\ IF IsFalseSize(master_size_bytes)
                      THEN pc' = "ds64" /\ walk' = "rf64" /\ error' = error
                      ELSE IF m \in RiffMasters
                           THEN pc' = "riff" /\ walk' = "riff" /\ error' = error
                           ELSE pc' = "done" /\ walk' = walk /\ error' = "Unsupported"
           /\ refpos' = pos'
    /\ UNCHANGED <<input, stream, ignore, ds64, yielded>>
    /\ UNCHANGED fmtVars
    /\ UNCHANGED asmVars
    /\ UNCHANGED format

\* a mutant: a short read of the identifier is let through
Ds64Missing_FullOnly(idb) == Len(idb) = 4 /\ idb # TagDs64

\* _rf64, line 126: the chunk after the header is not ds64
Ds64Missing(idb) == idb # TagDs64

\* _rf64, lines 125-171: the ds64 chunk
Rf64Header ==
    /\ pc = "ds64"
    /\ LET f(i) == IntFromBytes(StreamRead(pos + 4 * i, 4), byteorder)
           tell == pos + Len(StreamRead(pos, 36))
       IN  IF Ds64Missing(StreamRead(pos, 4))
           THEN /\ error' = "ExpectedDs64"
                /\ pc' = "done"
                /\ pos' = pos + Len(StreamRead(pos, 4))
                /\ ds64' = ds64
           ELSE /\ ds64' = [chunk_identifier |-> StreamRead(pos, 4),
                            chunk_size |-> f(1),
                            riff_low_size |-> f(2),
                            riff_high_size |-> f(3),
                            data_low_size |-> f(4),
                            data_high_size |-> f(5),
                            sample_low_count |-> f(6),
                            sample_high_count |-> f(7),
                            table_entry_count |-> f(8)]
                /\ pos' = tell + f(8) * 12
                /\ pc' = "rf64"
                /\ error' = error
    /\ refpos' = pos'
    /\ UNCHANGED <<input, stream, ignore, master, byteorder, formtype, walk, yielded>>
    /\ UNCHANGED fmtVars
    /\ UNCHANGED asmVars
    /\ UNCHANGED format

\* what a turn of a loop does to the walker
Turn(it, ref) ==
    /\ pos' = it.pos
    /\ refpos' = ref.pos
    /\ pc' = IF it.kind = "break" THEN "done" ELSE pc
    /\ yielded' = IF it.kind = "yield"
                  THEN Append(yielded,
                         [identifier |-> it.chunk.identifier, size |-> it.chunk.size,
                          data |-> it.chunk.data, idAt |-> it.chunk.idAt,
                          at |-> it.chunk.at, next |-> it.pos,
                          ref |-> IF ref.kind = "yield"
                                  THEN <<ref.chunk.identifier, ref.chunk.size>>
                                  ELSE <<>>])
                  ELSE yielded
    /\ UNCHANGED <<input, stream, ignore, master, byteorder, formtype, ds64, walk, error>>
    /\ UNCHANGED fmtVars
    /\ UNCHANGED asmVars
    /\ UNCHANGED format

\* _riff, lines 78-116: one chunk
RiffStep ==
    /\ pc = "riff"
    /\ Turn(RiffIter(pos, ignore, FALSE), RiffIter(refpos, ignore, TRUE))

\* _rf64, lines 173-217: one chunk
Rf64Step ==
    /\ pc = "rf64"
    /\ Turn(Rf64Iter(pos, ignore, FALSE), Rf64Iter(refpos, ignore, TRUE))

Next == GetChunks \/ Rf64Header \/ RiffStep \/ Rf64Step

Spec == Init /\ [][Next]_vars

(***************************************************************************)
(* What the claims speak of.                                               *)
(***************************************************************************)
\* the master tags the specification recognizes
SpecMasters == {TagRIFF, TagBW64, TagRF64, TagRIFX, TagFFIR}

\* the identifiers whose payload the specification says is skipped
SkipSet(ign) ==
    {TagData, TagJUNK, TagFLLR, TagPAD}
      \cup (IF ign THEN {TagMinf, TagElm1, TagRegn, TagUmid, TagElmo, TagDGDA, TagOvwf}
            ELSE {})

Yielded == {yielded[i] : i \in 1..Len(yielded)}

\* the offset of the first chunk after the header and, if there is one, the ds64 chunk
BodyStart(in) == 12 + (IF in.ds64 THEN 36 + 12 * in.table + 4 * in.slack ELSE 0)

\* the offset of chunk i of the body; chunk Len(body) + 1 is the end of the stream
ChunkStart(in, i) == BodyStart(in) + BodyLen(SubSeq(in.body, 1, i - 1))

\* a well-formed, untruncated RIFF, RIFX, RF64 or BW64 stream: RIFF and RIFX
\* carry their size, RF64 carries the sentinel and a ds64 chunk, BW64 either;
\* with a ds64 chunk, every data chunk has the ds64 data size and every fact
\* chunk the ds64 sample count, and the ds64 chunk ends with its table
WellFormed(in) ==
    /\ in.cut = 0
    /\ in.slack = 0
    /\ \/ in.master \in {TagRIFF, TagRIFX, TagBW64} /\ ~in.false
       \/ in.master \in {TagRF64, TagBW64} /\ in.false /\ in.ds64
    /\ in.ds64 => \A i \in 1..Len(in.body) :
                     in.body[i].id \in {TagData, TagFact}
                        => in.body[i].size = FirstSize(in.body, in.body[i].id)

\* well-formed, and every chunk is one the walker yields
Valid(in) ==
    /\ WellFormed(in)
    /\ \A i \in 1..Len(in.body) : in.body[i].id \notin {TagAfsp, NULL_IDENTIFIER}

RECURSIVE SumWithHeaders(_)
SumWithHeaders(ys) ==
    IF ys = <<>> THEN 0 ELSE 8 + Head(ys).size + SumWithHeaders(Tail(ys))

(***************************************************************************)
(* C1: RIFF, BW64 and RF64 resolve to little-endian, RIFX and FFIR to      *)
(* big-endian, and every other 4-byte master tag raises the                *)
(* unrecognized-container error before any chunk is yielded.               *)
(***************************************************************************)
C1_ByteOrderFromMaster ==
    pc # "start" =>
      LET m == StreamRead(0, 4)
      IN  /\ m \in {TagRIFF, TagBW64, TagRF64}
               => byteorder = LITTLE_ENDIAN /\ error # "InvalidMaster"
          /\ m \in {TagRIFX, TagFFIR}
               => byteorder = BIG_ENDIAN /\ error # "InvalidMaster"
          /\ Len(m) = 4 /\ m \notin SpecMasters
               => error = "InvalidMaster" /\ yielded = <<>>

(***************************************************************************)
(* C2: when the container size field is ff ff ff ff and the 4 bytes after  *)
(* the 12-byte header are not exactly ds64 (a shorter read included), the  *)
(* walk ends with a fatal error and no chunk is ever yielded; once the     *)
(* byte order is resolved that error is the missing-ds64 error, which is   *)
(* raised in no other case.                                                *)
(***************************************************************************)
C2_Ds64Required ==
    LET sentinel == StreamRead(4, 4) = FALSE_SIZE
        absent == StreamRead(12, 4) # TagDs64
    IN  /\ sentinel /\ absent => yielded = <<>>
        /\ sentinel /\ absent /\ pc = "done"
             => error # None /\ (byteorder # None => error = "ExpectedDs64")
        /\ error = "ExpectedDs64" => sentinel /\ absent

C2_Witness ==
    /\ pc = "done"
    /\ error = "ExpectedDs64"
    /\ Len(StreamRead(12, 4)) = 3

C4_SkipEquivalence ==
    /\ refpos = pos
    /\ \A y \in Yielded :
         /\ y.ref = <<y.identifier, y.size>>
         /\ y.identifier \in SkipSet(ignore) =>
              LET declared ==
                    IF walk = "rf64" /\ y.identifier = TagData
                    THEN ds64.data_low_size
                    ELSE IntFromBytes(StreamRead(y.idAt + 4, 4), byteorder)
                  full == StreamRead(y.at, y.size)
              IN  /\ y.data = <<>>
                  /\ y.size = declared + (declared % 2)
                  /\ y.next = y.at + y.size
                  /\ y.next = (y.at + Len(full)) + (y.size - Len(full))

C4_Witness ==
    /\ pc = "done"
    /\ ignore
    /\ Len(yielded) = 2
    /\ yielded[1].identifier = TagMinf /\ yielded[1].size = 2
    /\ yielded[1].data = <<>>
    /\ yielded[2].identifier = TagFmt /\ yielded[2].idAt = 22

(***************************************************************************)
(* C5: in both modes, once fewer than 4 bytes remain for an identifier or  *)
(* a size field the walk ends without raising, and no chunk is yielded     *)
(* whose identifier or size field is incomplete.                           *)
(***************************************************************************)
C5_BenignTermination ==
    /\ walk = "riff" \/ ds64 # NoDs64 => error = None
    /\ \A y \in Yielded : y.idAt + 8 <= Len(stream)

(***************************************************************************)
(* C6: walking the empty stream yields no chunk and raises nothing.        *)
(***************************************************************************)
C6_EmptyStream ==
    stream = <<>> /\ pc = "done" => error = None /\ yielded = <<>>

(***************************************************************************)
(* C7: for each of the five recognized master tags the walker enters the   *)
(* 64-bit-size mode exactly when the size field is the sentinel, and       *)
(* otherwise walks in standard mode without raising.                       *)
(***************************************************************************)
C7_ModeSelection ==
    pc # "start" /\ StreamRead(0, 4) \in SpecMasters =>
      LET sentinel == StreamRead(4, 4) = FALSE_SIZE
      IN  /\ walk = "rf64" <=> sentinel
          /\ ~sentinel => walk = "riff" /\ error = None

PVOC_EX == <<"8312B9C2-2E6E-11d4-A824-DE5B96C3AB21",
             "c2b91283-6e2e-d411-a824-de5b96c3ab21">>

EXTENSIBLE == 65534

WAVE_FORMAT_PCM == "WAVE_FORMAT_PCM"
WAVE_FORMAT_EXTENDED == "WAVE_FORMAT_EXTENDED"
WAVE_FORMAT_EXTENSIBLE == "WAVE_FORMAT_EXTENSIBLE"
WAVE_FORMAT_PVOC_EX == "WAVE_FORMAT_PVOC_EX"

FORMAT_CHUNK_LOCATION == "['fmt ' / FORMAT]"

\* the table of speaker positions, one entry per bit of the channel mask, in
\* the order of the table
GENERIC_CHANNEL_MASK_MAP ==
    << [bit |-> 1, name |-> "Front Left"],
       [bit |-> 2, name |-> "Front Right"],
       [bit |-> 4, name |-> "Front Center"],
       [bit |-> 8, name |-> "Low Frequency"],
       [bit |-> 16, name |-> "Back Left"],
       [bit |-> 32, name |-> "Back Right"],
       [bit |-> 64, name |-> "Front Left Of Center"],
       [bit |-> 128, name |-> "Front Right Of Center"],
       [bit |-> 256, name |-> "Back Center"],
       [bit |-> 512, name |-> "Side Left"],
       [bit |-> 1024, name |-> "Side Right"],
       [bit |-> 2048, name |-> "Top Center"],
       [bit |-> 4096, name |-> "Top Front Left"],
       [bit |-> 8192, name |-> "Top Front Center"],
       [bit |-> 16384, name |-> "Top Front Right"],
       [bit |-> 32768, name |-> "Top Back Left"],
       [bit |-> 65536, name |-> "Top Back Center"],
       [bit |-> 131072, name |-> "Top Back Right"] >>

\* a diagnostic: a location and a message
PerverseError(location, message) == <<location, message>>

bo_symbol(bo) ==
    IF bo = BIG_ENDIAN THEN ">" ELSE IF bo = LITTLE_ENDIAN THEN "<" ELSE "raise"

\* data[a:b]
Slice(data, a, b) == SubSeq(data, a + 1, Min(b, Len(data)))

\* struct.unpack of one unsigned field, H or I, of exactly Len(bs) bytes
Unpack(sign, bs) == IntFromBytes(bs, IF sign = "<" THEN LITTLE_ENDIAN ELSE BIG_ENDIAN)

\* struct.unpack of one f field: the sign, the exponent and the mantissa of
\* the IEEE 754 single
UnpackFloat(sign, bs) ==
    LET b == IF sign = "<" THEN Reverse(bs) ELSE bs
    IN  [sign |-> b[1] \div 128,
         exponent |-> (b[1] % 128) * 2 + (b[2] \div 128),
         mantissa |-> (b[2] % 128) * 65536 + b[3] * 256 + b[4]]

\* a & b
RECURSIVE BitAnd(_, _)
BitAnd(a, b) ==
    IF a = 0 \/ b = 0 THEN 0
    ELSE (a % 2) * (b % 2) + 2 * BitAnd(a \div 2, b \div 2)

RECURSIVE BinDigits(_)
BinDigits(n) == IF n < 2 THEN <<n>> ELSE Append(BinDigits(n \div 2), n % 2)

RECURSIVE JoinDigits(_)
JoinDigits(ds) == IF ds = <<>> THEN "" ELSE ToString(Head(ds)) \o JoinDigits(Tail(ds))

\* f"{cmask:016b}": the binary digits, filled with zeros to 16 at least
Format016b(cmask) ==
    LET ds == BinDigits(cmask)
        fill == [i \in 1..Max(0, 16 - Len(ds)) |-> 0]
    IN  JoinDigits(fill \o ds)

\* a mutant: the names in the opposite order
SpeakerLayout_Reversed(cmask) ==
    LET Test(e) == BitAnd(cmask, e.bit) # 0
        sel == SelectSeq(GENERIC_CHANNEL_MASK_MAP, Test)
    IN  [i \in 1..Len(sel) |-> sel[Len(sel) + 1 - i].name]

\* the names of the bits of the table that are set in cmask, in table order
SpeakerLayout(cmask) ==
    LET Test(e) == BitAnd(cmask, e.bit) # 0
        sel == SelectSeq(GENERIC_CHANNEL_MASK_MAP, Test)
    IN  [i \in 1..Len(sel) |-> sel[i].name]

HexDigits == <<"0", "1", "2", "3", "4", "5", "6", "7",
               "8", "9", "a", "b", "c", "d", "e", "f">>

RECURSIVE HexStr(_)
HexStr(bs) ==
    IF bs = <<>> THEN ""
    ELSE HexDigits[(Head(bs) \div 16) + 1] \o HexDigits[(Head(bs) % 16) + 1] \o HexStr(Tail(bs))

\* str(uuid.UUID(bytes=bs)) of 16 bytes: lower-case hexadecimal digits in the
\* order of the bytes, grouped 8-4-4-4-12
UuidStr(bs) ==
    HexStr(SubSeq(bs, 1, 4)) \o "-" \o HexStr(SubSeq(bs, 5, 6)) \o "-"
    \o HexStr(SubSeq(bs, 7, 8)) \o "-" \o HexStr(SubSeq(bs, 9, 10)) \o "-"
    \o HexStr(SubSeq(bs, 11, 16))

\* str(guid) in PVOC_EX
InPvocEx(guid) == \E i \in DOMAIN PVOC_EX : PVOC_EX[i] = guid

\* the names of the PVOC-EX fields of the record
PvocFields == {"version", "pvoc_size", "word_format", "analysis_format",
               "source_format", "window_type", "bin_count", "window_length",
               "overlap", "frame_align", "analysis_rate", "window_param"}

\* WaveFormatChunk.__post_init__: subformat is a dictionary in every record,
\* and its key pvoc_ex holds the PVOC-EX fields if one of them is set
WaveFormatChunk(f) ==
    LET pvoc_ex_info == [k \in PvocFields |-> f[k]]
        pvoc_ex == IF \E k \in PvocFields : pvoc_ex_info[k] # Null
                   THEN Some(pvoc_ex_info) ELSE Null
    IN  [f EXCEPT !.subformat =
            IF f.subformat = Null
            THEN [pvoc_ex |-> pvoc_ex]
            ELSE [audio_format |-> f.subformat[1].audio_format,
                  guid |-> f.subformat[1].guid,
                  pvoc_ex |-> pvoc_ex]]

\* what a call ends with
Raise(e) == [raised |-> e, chunk |-> Null]
Return(f) == [raised |-> None, chunk |-> Some(WaveFormatChunk(f))]

\* a mutant: the missing extension of a non-PCM format goes unnoticed
NonPcmNoExtension_Never(audio_format, size) == FALSE

\* _fmt, line 773
NonPcmNoExtension(audio_format, size) == audio_format # 1 /\ size = 16

\* _fmt, lines 809-829: the PVOC-EX fields
FmtPvocEx(sign, data, f) ==
    IF Len(Slice(data, 40, 48)) # 8 THEN Raise("struct.error")
    ELSE LET version == Unpack(sign, Slice(data, 40, 44))
             pvoc_size == Unpack(sign, Slice(data, 44, 48))
             index == 48
             p == Slice(data, index, index + pvoc_size)
         IN  IF Len(p) # 32 THEN Raise("struct.error")
             ELSE Return([f EXCEPT
                     !.mode = Some(WAVE_FORMAT_PVOC_EX),
                     !.version = Some(version),
                     !.pvoc_size = Some(pvoc_size),
                     !.word_format = Some(Unpack(sign, Slice(p, 0, 2))),
                     !.analysis_format = Some(Unpack(sign, Slice(p, 2, 4))),
                     !.source_format = Some(Unpack(sign, Slice(p, 4, 6))),
                     !.window_type = Some(Unpack(sign, Slice(p, 6, 8))),
                     !.bin_count = Some(Unpack(sign, Slice(p, 8, 12))),
                     !.window_length = Some(Unpack(sign, Slice(p, 12, 16))),
                     !.overlap = Some(Unpack(sign, Slice(p, 16, 20))),
                     !.frame_align = Some(Unpack(sign, Slice(p, 20, 24))),
                     !.analysis_rate = Some(UnpackFloat(sign, Slice(p, 24, 28))),
                     !.window_param = Some(UnpackFloat(sign, Slice(p, 28, 32)))])

\* _fmt, lines 782-835: audio_format is EXTENSIBLE
FmtExtensible(sign, size, data, f) ==
    IF Len(Slice(data, 16, 24)) # 8 THEN Raise("struct.error")
    ELSE LET extension_size == Unpack(sign, Slice(data, 16, 18))
             valid_bits_per_sample == Unpack(sign, Slice(data, 18, 20))
             cmask == Unpack(sign, Slice(data, 20, 24))
             sfmt == Slice(data, 24, 40)
         IN  IF Len(Slice(sfmt, 0, 2)) # 2 THEN Raise("struct.error")
             ELSE IF Len(Slice(sfmt, 0, 16)) # 16 THEN Raise("ValueError")
             ELSE LET format_code == Unpack(sign, Slice(sfmt, 0, 2))
                      guid == UuidStr(Slice(sfmt, 0, 16))
                      g == [f EXCEPT
                              !.mode = Some(WAVE_FORMAT_EXTENSIBLE),
                              !.extension_size = Some(extension_size),
                              !.valid_bits_per_sample = Some(valid_bits_per_sample),
                              !.channel_mask = Some(Format016b(cmask)),
                              !.speaker_layout = Some(SpeakerLayout(cmask)),
                              !.subformat = Some([audio_format |-> format_code,
                                                  guid |-> guid])]
                  IN  IF InPvocEx(guid)
                      THEN IF size # 80
                           THEN Return(g)
                           ELSE FmtPvocEx(sign, data, g)
                      ELSE IF size # 40
                           THEN Return([g EXCEPT !.sanity = Append(@,
                                   PerverseError(
                                     FORMAT_CHUNK_LOCATION \o " -- AUDIO FORMAT / SIZE",
                                     "AUDIO FORMAT (EXTENSIBLE / 65534 / 0xFFFE) MUST BE SIZE 40 NOT "
                                       \o ToString(size)))])
                           ELSE Return(g)

\* _fmt, lines 737-885
_fmt(bo, identifier, size, data) ==
    LET sign == bo_symbol(bo)
        default == Slice(data, 0, 16)
    IN  IF Len(default) # 16 THEN Raise("struct.error")
        ELSE
        LET audio_format == Unpack(sign, Slice(default, 0, 2))
            f == [identifier |-> identifier,
                  size |-> size,
                  mode |-> Null,
                  sanity |-> <<>>,
                  audio_format |-> audio_format,
                  channel_count |-> Unpack(sign, Slice(default, 2, 4)),
                  sample_rate |-> Unpack(sign, Slice(default, 4, 8)),
                  byte_rate |-> Unpack(sign, Slice(default, 8, 12)),
                  block_align |-> Unpack(sign, Slice(default, 12, 14)),
                  bits_per_sample |-> Unpack(sign, Slice(default, 14, 16)),
                  extension_size |-> Null,
                  valid_bits_per_sample |-> Null,
                  channel_mask |-> Null,
                  speaker_layout |-> Null,
                  subformat |-> Null,
                  version |-> Null,
                  pvoc_size |-> Null,
                  word_format |-> Null,
                  analysis_format |-> Null,
                  source_format |-> Null,
                  window_type |-> Null,
                  bin_count |-> Null,
                  window_length |-> Null,
                  overlap |-> Null,
                  frame_align |-> Null,
                  analysis_rate |-> Null,
                  window_param |-> Null]
        IN  IF NonPcmNoExtension(audio_format, size)
            THEN Return([f EXCEPT !.sanity = Append(@,
                    PerverseError(FORMAT_CHUNK_LOCATION \o " -- AUDIO FORMAT / SIZE",
                                  "NON-PCM FORMATS MUST CONTAIN AN EXTENSION FIELD."))])
            ELSE IF audio_format = EXTENSIBLE
            THEN FmtExtensible(sign, size, data, f)
            ELSE IF size = 18
            THEN IF Len(Slice(data, 16, 18)) # 2 THEN Raise("struct.error")
                 ELSE Return([f EXCEPT
                         !.mode = Some(WAVE_FORMAT_EXTENDED),
                         !.extension_size = Some(Unpack(sign, Slice(data, 16, 18)))])
            ELSE Return([f EXCEPT
                    !.mode = Some(WAVE_FORMAT_PCM),
                    !.sanity = IF size # 16
                               THEN Append(@, PerverseError(
                                      FORMAT_CHUNK_LOCATION \o " -- AUDIO FORMAT / SIZE",
                                      "AUDIO FORMAT (PCM / 1 / 0x0001) MUST BE SIZE 16 NOT "
                                        \o ToString(size) \o "."))
                               ELSE @])

\* f"{bitrate / 1000} kb/s": the quotient, and the thousandths without
\* their trailing zeros
BitrateLong(n) ==
    LET r == n % 1000
        frac == IF r % 100 = 0 THEN ToString(r \div 100)
                ELSE IF r % 10 = 0 THEN ToString(r \div 100) \o ToString((r \div 10) % 10)
                ELSE ToString(r \div 100) \o ToString((r \div 10) % 10) \o ToString(r % 10)
    IN  ToString(n \div 1000) \o "." \o frac \o " kb/s"

(***************************************************************************)
(* The 'fmt ' chunks given to the decoder: a declared size, and the first  *)
(* bytes of a payload laid out as common header, extension, sub-format     *)
(* GUID and PVOC-EX fields, written in the byte order of the stream.  The  *)
(* walker hands over no more bytes than the declared size.                 *)
(***************************************************************************)
FmtSizes == {14, 16, 18, 20, 40, 80}

FmtLens == {0, 2, 14, 16, 17, 18, 20, 24, 25, 26, 39, 40, 47, 48, 79, 80}

AudioFormats == {1, 3, 6, EXTENSIBLE}

\* KSDATAFORMAT_SUBTYPE_PCM, the PVOC-EX GUID as the second entry of PVOC_EX
\* spells it, and the bytes that spell the first entry in lower case
GuidPcm == <<1, 0, 0, 0, 0, 0, 16, 0, 128, 0, 0, 170, 0, 56, 155, 113>>
GuidPvoc == <<194, 185, 18, 131, 110, 46, 212, 17, 168, 36, 222, 91, 150, 195, 171, 33>>
GuidPvocUpper == <<131, 18, 185, 194, 46, 110, 17, 212, 168, 36, 222, 91, 150, 195, 171, 33>>

PvocSizes == {0, 32, 40}

\* a channel mask with a bit that the table has and a bit that it lacks
HighMask == 262145

Enc16(n, bo) ==
    IF bo = LITTLE_ENDIAN THEN <<n % 256, n \div 256>> ELSE <<n \div 256, n % 256>>

\* 1.0 as an IEEE 754 single
EncOne(bo) == IF bo = LITTLE_ENDIAN THEN <<0, 0, 128, 63>> ELSE <<63, 128, 0, 0>>

FmtPayload(in, bo) ==
    Enc16(in.audio_format, bo) \o Enc16(in.channel_count, bo)
    \o Enc32(11025, bo) \o Enc32(11025 * in.channel_count, bo)
    \o Enc16(in.channel_count, bo) \o Enc16(8, bo)
    \o Enc16(22, bo) \o Enc16(8, bo) \o Enc32(in.cmask, bo)
    \o in.guid
    \o Enc32(1, bo) \o Enc32(in.pvoc_size, bo)
    \o Enc16(0, bo) \o Enc16(0, bo) \o Enc16(1, bo) \o Enc16(1, bo)
    \o Enc32(513, bo) \o Enc32(1024, bo) \o Enc32(256, bo) \o Enc32(1024, bo)
    \o EncOne(bo) \o EncOne(bo)

FmtInputs ==
    {in \in [audio_format : AudioFormats, channel_count : 1..MaxChannels,
             size : FmtSizes, len : FmtLens, cmask : (0..MaxMask) \cup {HighMask},
             guid : {GuidPcm, GuidPvoc, GuidPvocUpper}, pvoc_size : PvocSizes] :
        in.len <= in.size}

\* the walker is not part of this specification: its variables keep the
\* values of a RIFF or RIFX stream read to its end
InitFmt ==
    /\ \E in \in FmtInputs, bo \in {LITTLE_ENDIAN, BIG_ENDIAN} :
          /\ byteorder = bo
          /\ master = Some(IF bo = LITTLE_ENDIAN THEN TagRIFF ELSE TagRIFX)
          /\ fmtArgs = [identifier |-> TagFmt, size |-> in.size,
                        data |-> SubSeq(FmtPayload(in, bo), 1, in.len)]
    /\ input = [master |-> master[1], false |-> FALSE, ds64 |-> FALSE,
                table |-> 0, slack |-> 0, body |-> <<>>, cut |-> 0]
    /\ stream = BuildStream(input)
    /\ ignore = FALSE
    /\ pc = "fmt"
    /\ pos = Len(stream)
    /\ formtype = Some(TagWAVE)
    /\ ds64 = NoDs64
    /\ walk = "riff"
    /\ yielded = <<>>
    /\ error = None
    /\ refpos = pos
    /\ fmtRet = NoFmtRet
    /\ bitrate = Null
    /\ bitrate_long = Null
    /\ legacyRet = NoFmtRet
    /\ AsmIdle
    /\ format = Null

\* one call of _fmt, with the attributes it sets at lines 854-855
Fmt ==
    /\ pc = "fmt"
    /\ LET r == _fmt(byteorder, fmtArgs.identifier, fmtArgs.size, fmtArgs.data)
       IN  /\ fmtRet' = r
           /\ IF r.raised = None
              THEN /\ bitrate' = Some(r.chunk[1].byte_rate * 8)
                   /\ bitrate_long' = Some(BitrateLong(r.chunk[1].byte_rate * 8))
              ELSE UNCHANGED <<bitrate, bitrate_long>>
    /\ pc' = "fmt_done"
    /\ UNCHANGED <<input, stream, ignore, pos, master, byteorder, formtype, ds64,
                   walk, yielded, error, refpos, fmtArgs, legacyRet>>
    /\ UNCHANGED asmVars
    /\ UNCHANGED format

(***************************************************************************)
(* The older decoder of the 'fmt ' chunk, WaveFormat (ck_fmt.py), which    *)
(* wavlike.py registers.  Its record has no PVOC-EX fields and no          *)
(* __post_init__.                                                          *)
(***************************************************************************)
WAVEFORMATPCM == "WaveFormatPCM"
WAVEFORMATEXTENDED == "WaveFormatExtended"
WAVEFORMATEXTENSIBLE == "WaveFormatExtensible"

\* the table of speaker positions of ck_fmt.py
CHANNEL_MASK_BMAP == GENERIC_CHANNEL_MASK_MAP

\* WaveFormat._get_endian
_get_endian(bo) ==
    IF bo = LITTLE_ENDIAN THEN "<" ELSE IF bo = BIG_ENDIAN THEN ">" ELSE "raise"

\* what a call of get_format returns
ReturnFormat(f) == [raised |-> None, chunk |-> Some(f)]

\* get_format, lines 114-138: audio_format is EXTENSIBLE
GetFormatExtensible(sign, size, data, f) ==
    IF Len(Slice(data, 16, 24)) # 8 THEN Raise("struct.error")
    ELSE LET cmask == Unpack(sign, Slice(data, 20, 24))
             sfmt == Slice(data, 24, 40)
             Test(e) == BitAnd(cmask, e.bit) # 0
             sel == SelectSeq(CHANNEL_MASK_BMAP, Test)
         IN  IF Len(Slice(sfmt, 0, 2)) # 2 THEN Raise("struct.error")
             ELSE IF Len(sfmt) # 16 THEN Raise("ValueError")
             ELSE ReturnFormat([f EXCEPT
                     !.sanity = IF size # 40
                                THEN Append(@, PerverseError(
                                       FORMAT_CHUNK_LOCATION \o " -- AUDIO FORMAT / SIZE",
                                       "AUDIO FORMAT (EXTENSIBLE / 65534 / 0xFFFE) MUST BE SIZE 40 NOT "
                                         \o ToString(size)))
                                ELSE @,
                     !.mode = Some(WAVEFORMATEXTENSIBLE),
                     !.extension_size = Some(Unpack(sign, Slice(data, 16, 18))),
                     !.valid_bits_per_sample = Some(Unpack(sign, Slice(data, 18, 20))),
                     !.channel_mask = Some(Format016b(cmask)),
                     !.speaker_layout = Some([i \in 1..Len(sel) |-> sel[i].name]),
                     !.subformat = Some([audio_format |-> Unpack(sign, Slice(sfmt, 0, 2)),
                                         guid |-> UuidStr(sfmt)])])

\* get_format, lines 85-173.  The branch of a non-PCM format of size 16
\* assigns no mode, and the return statement reads mode.
get_format(bo, identifier, size, data) ==
    LET sign == _get_endian(bo)
        default == Slice(data, 0, 16)
    IN  IF Len(default) # 16 THEN Raise("struct.error")
        ELSE
        LET audio_format == Unpack(sign, Slice(default, 0, 2))
            f == [identifier |-> identifier,
                  size |-> size,
                  mode |-> Null,
                  sanity |-> <<>>,
                  audio_format |-> audio_format,
                  channel_count |-> Unpack(sign, Slice(default, 2, 4)),
                  sample_rate |-> Unpack(sign, Slice(default, 4, 8)),
                  byte_rate |-> Unpack(sign, Slice(default, 8, 12)),
                  block_align |-> Unpack(sign, Slice(default, 12, 14)),
                  bits_per_sample |-> Unpack(sign, Slice(default, 14, 16)),
                  extension_size |-> Null,
                  valid_bits_per_sample |-> Null,
                  channel_mask |-> Null,
                  speaker_layout |-> Null,
                  subformat |-> Null]
        IN  IF audio_format # 1 /\ size = 16
            THEN Raise("UnboundLocalError")
            ELSE IF audio_format = EXTENSIBLE
            THEN GetFormatExtensible(sign, size, data, f)
            ELSE IF size = 18
            THEN IF Len(Slice(data, 16, 18)) # 2 THEN Raise("struct.error")
                 ELSE ReturnFormat([f EXCEPT
                         !.mode = Some(WAVEFORMATEXTENDED),
                         !.extension_size = Some(Unpack(sign, Slice(data, 16, 18)))])
            ELSE ReturnFormat([f EXCEPT
                    !.mode = Some(WAVEFORMATPCM),
                    !.sanity = IF size # 16
                               THEN Append(@, PerverseError(
                                      FORMAT_CHUNK_LOCATION \o " -- AUDIO FORMAT / SIZE",
                                      "AUDIO FORMAT (PCM / 1 / 0x0001) MUST BE SIZE 16 NOT "
                                        \o ToString(size) \o "."))
                               ELSE @])

\* WaveFormat.__init__, lines 60-74, on the arguments of the call: the format,
\* the bitrate and its text, and the attribute sanity reset to None
WaveFormatInit ==
    /\ pc \in {"fmt", "fmt_done"}
    /\ legacyRet = NoFmtRet
    /\ LET r == get_format(byteorder, fmtArgs.identifier, fmtArgs.size, fmtArgs.data)
       IN  legacyRet' = IF r.raised = None
                        THEN [raised |-> None, chunk |-> r.chunk,
                              bitrate |-> r.chunk[1].byte_rate * 8,
                              bitrate_long |-> BitrateLong(r.chunk[1].byte_rate * 8),
                              sanity |-> Null]
                        ELSE r
    /\ UNCHANGED <<input, stream, ignore, pc, pos, master, byteorder, formtype, ds64,
                   walk, yielded, error, refpos, fmtArgs, fmtRet, bitrate, bitrate_long>>
    /\ UNCHANGED asmVars
    /\ UNCHANGED format

NextFmt == Fmt \/ WaveFormatInit

SpecFmt == InitFmt /\ [][NextFmt]_vars


(***************************************************************************)
(* The registry, SWave.all_chunks (wave.py).  Identifiers and attribute    *)
(* names are the byte strings of their characters.                         *)
(***************************************************************************)
\* "LIST", "adtl", "INFO", "_PMX", "labl", "note", "ltxt", "INAM", "IART"
LIST_IDENTIFIER == TagLIST
ADTL_IDENTIFIER == <<97, 100, 116, 108>>
INFO_IDENTIFIER == <<73, 78, 70, 79>>
PMX_IDENTIFIER == <<95, 80, 77, 88>>
TagLabl == <<108, 97, 98, 108>>
TagNote == <<110, 111, 116, 101>>
TagLtxt == <<108, 116, 120, 116>>
TagINAM == <<73, 78, 65, 77>>
TagIART == <<73, 65, 82, 84>>

\* the names of the attributes of a chunk that SWave.__init__ sets to None:
\* acid, adtl, axml, bext, cart, chna, cue, data, dbmd, disp,
\* fact, fmt, info, inst, ixml, levl, md5, pmx, smpl, strc
ChunkAttrs ==
    {<<97, 99, 105, 100>>,
     <<97, 100, 116, 108>>,
     <<97, 120, 109, 108>>,
     <<98, 101, 120, 116>>,
     <<99, 97, 114, 116>>,
     <<99, 104, 110, 97>>,
     <<99, 117, 101>>,
     <<100, 97, 116, 97>>,
     <<100, 98, 109, 100>>,
     <<100, 105, 115, 112>>,
     <<102, 97, 99, 116>>,
     <<102, 109, 116>>,
     <<105, 110, 102, 111>>,
     <<105, 110, 115, 116>>,
     <<105, 120, 109, 108>>,
     <<108, 101, 118, 108>>,
     <<109, 100, 53>>,
     <<112, 109, 120>>,
     <<115, 109, 112, 108>>,
     <<115, 116, 114, 99>>}

\* the names of the decoders, the methods of SWave that begin with an
\* underscore: _fmt, _data, _fact, _info, _inst, _levl, _smpl, _acid, _cart, _chna,
\* _strc, _bext, _disp, _cue, _adtl, _pmx, _axml, _ixml, _md5
DecoderNames ==
    {<<95, 102, 109, 116>>,
     <<95, 100, 97, 116, 97>>,
     <<95, 102, 97, 99, 116>>,
     <<95, 105, 110, 102, 111>>,
     <<95, 105, 110, 115, 116>>,
     <<95, 108, 101, 118, 108>>,
     <<95, 115, 109, 112, 108>>,
     <<95, 97, 99, 105, 100>>,
     <<95, 99, 97, 114, 116>>,
     <<95, 99, 104, 110, 97>>,
     <<95, 115, 116, 114, 99>>,
     <<95, 98, 101, 120, 116>>,
     <<95, 100, 105, 115, 112>>,
     <<95, 99, 117, 101>>,
     <<95, 97, 100, 116, 108>>,
     <<95, 112, 109, 120>>,
     <<95, 97, 120, 109, 108>>,
     <<95, 105, 120, 109, 108>>,
     <<95, 109, 100, 53>>}

\* "fmt"
NameFmt == <<102, 109, 116>>

\* "data"
NameData == <<100, 97, 116, 97>>

\* "info"
NameInfo == <<105, 110, 102, 111>>

\* "pmx"
NamePmx == <<112, 109, 120>>

\* "_pmx"
NameUPmx == <<95, 112, 109, 120>>

\* "_fmt"
NameUFmt == <<95, 102, 109, 116>>

\* "_data"
NameUData == <<95, 100, 97, 116, 97>>

\* "_fact"
NameUFact == <<95, 102, 97, 99, 116>>

\* "_info"
NameUInfo == <<95, 105, 110, 102, 111>>

\* "_adtl"
NameUAdtl == <<95, 97, 100, 116, 108>>


\* "byteorder"
NameByteorder == <<98, 121, 116, 101, 111, 114, 100, 101, 114>>

\* "master"
NameMaster == <<109, 97, 115, 116, 101, 114>>

\* "formtype"
NameFormtype == <<102, 111, 114, 109, 116, 121, 112, 101>>

\* "ds64"
NameDs64 == <<100, 115, 54, 52>>

\* str.lower() of a string of latin-1 characters
Lower(s) ==
    [i \in 1..Len(s) |->
        IF s[i] \in 65..90 \/ (s[i] \in 192..222 /\ s[i] # 215) THEN s[i] + 32 ELSE s[i]]

\* the characters that str.strip() removes
IsSpace(c) == c \in (9..13) \cup (28..32) \cup {133, 160}

RECURSIVE LStrip(_)
LStrip(s) == IF s # <<>> /\ IsSpace(Head(s)) THEN LStrip(Tail(s)) ELSE s

\* str.strip()
Strip(s) == Reverse(LStrip(Reverse(LStrip(s))))

RECURSIVE DecimalDigits(_)
DecimalDigits(n) ==
    IF n < 10 THEN <<48 + n>> ELSE Append(DecimalDigits(n \div 10), 48 + (n % 10))

\* sanitize_fallback(bs, "ascii"): the empty string if a byte is not ASCII,
\* else the characters without the null characters
SanitizeAscii(bs) ==
    IF \E i \in 1..Len(bs) : bs[i] >= 128 THEN <<>>
    ELSE LET NotNull(c) == c # 0 IN SelectSeq(bs, NotNull)

\* sanitize_fallback(bs, "latin-1")
SanitizeLatin1(bs) == LET NotNull(c) == c # 0 IN SelectSeq(bs, NotNull)

\* GenericChunk(identifier, size, str(data)): str(data) is the text of the
\* bytes literal of the payload
GenericChunk(identifier, size, data) ==
    [identifier |-> identifier, size |-> size, data |-> [literal |-> data]]

\* _data, lines 887-891
_data(identifier, size, raw_data) ==
    [raised |-> None,
     chunk |-> Some([identifier |-> identifier, raw_data |-> raw_data,
                     byte_count |-> size, frame_count |-> Null])]

\* _fact, lines 893-897
_fact(bo, identifier, size, data) ==
    IF Len(Slice(data, 0, 4)) # 4 THEN Raise("struct.error")
    ELSE [raised |-> None,
          chunk |-> Some([identifier |-> identifier, size |-> size,
                          samples |-> Unpack(bo_symbol(bo), Slice(data, 0, 4))])]

\* the fields of WaveInfoChunk that a tag of the INFO list sets
InfoTagFields ==
    <<<<<<73, 65, 82, 76>>, {"archival_location"}>>,
      <<<<73, 65, 82, 84>>, {"artist"}>>,
      <<<<73, 67, 77, 83>>, {"commissioned"}>>,
      <<<<73, 67, 77, 84>>, {"comment"}>>,
      <<<<73, 67, 79, 80>>, {"copyright"}>>,
      <<<<73, 67, 82, 68>>, {"creation_date"}>>,
      <<<<73, 67, 82, 80>>, {"cropped"}>>,
      <<<<73, 68, 73, 77>>, {"dimensions"}>>,
      <<<<73, 68, 80, 73>>, {"dots_per_inch"}>>,
      <<<<73, 69, 78, 71>>, {"engineer"}>>,
      <<<<73, 71, 78, 82>>, {"genre"}>>,
      <<<<73, 75, 69, 89>>, {"keywords"}>>,
      <<<<73, 76, 71, 84>>, {"lightness"}>>,
      <<<<73, 77, 69, 68>>, {"medium"}>>,
      <<<<73, 78, 65, 77>>, {"title"}>>,
      <<<<73, 80, 76, 84>>, {"palette"}>>,
      <<<<73, 80, 82, 68>>, {"product", "album"}>>,
      <<<<73, 83, 66, 74>>, {"subject"}>>,
      <<<<73, 83, 70, 84>>, {"software"}>>,
      <<<<73, 83, 82, 67>>, {"source"}>>,
      <<<<73, 83, 82, 70>>, {"source_form"}>>,
      <<<<73, 84, 67, 72>>, {"technician"}>>>>

InfoFieldNames == UNION {InfoTagFields[i][2] : i \in DOMAIN InfoTagFields}

\* WaveInfoChunk(identifier, size)
WaveInfoChunk(identifier, size) ==
    [identifier |-> identifier, size |-> size, fields |-> [n \in InfoFieldNames |-> Null]]

\* yield_info, lines 904-936: the tags of the payload from offset p on, each
\* with its text
RECURSIVE yield_info(_, _, _)
yield_info(bo, data, p) ==
    LET id_bytes == Slice(data, p, p + 4)
        size_bytes == Slice(data, p + 4, p + 8)
        declared == IntFromBytes(size_bytes, bo)
        tag_size == IF declared % 2 # 0 THEN declared + 1 ELSE declared
        data_bytes == Slice(data, p + 8, p + 8 + tag_size)
        tag_data == IF SanitizeAscii(data_bytes) = <<>>
                    THEN SanitizeLatin1(data_bytes) ELSE SanitizeAscii(data_bytes)
    IN  IF Len(id_bytes) < 4 \/ Len(size_bytes) < 4 THEN <<>>
        ELSE <<[tag_identifier |-> SanitizeAscii(id_bytes), tag_data |-> tag_data]>>
             \o yield_info(bo, data, p + 8 + Len(data_bytes))

\* lines 938-984: the fields after the tags ts are stored in order
RECURSIVE StoreInfo(_, _)
StoreInfo(fields, ts) ==
    IF ts = <<>> THEN fields
    ELSE LET hit == {i \in DOMAIN InfoTagFields : InfoTagFields[i][1] = Head(ts).tag_identifier}
             set == UNION {InfoTagFields[i][2] : i \in hit}
         IN  StoreInfo([n \in InfoFieldNames |->
                          IF n \in set THEN Some(Head(ts).tag_data) ELSE fields[n]],
                       Tail(ts))

\* _info, lines 899-986: the INFO record of the object, made at the first
\* call and updated by every call
_info(bo, info, identifier, size, data) ==
    LET start == IF info = Null THEN WaveInfoChunk(identifier, size) ELSE info[1]
    IN  [raised |-> None,
         chunk |-> Some([start EXCEPT
                           !.fields = StoreInfo(@, yield_info(bo, data, 0))])]


\* _adtl, lines 1433-1481; a sub-chunk that is not labl, note or ltxt, and a
\* size under 8, return None
_adtl(bo, identifier, size, data) ==
    LET sign == bo_symbol(bo)
        sub_chunk_id == SanitizeAscii(Slice(data, 0, 4))
    IN  IF size < 8 THEN [raised |-> None, chunk |-> Null]
        ELSE IF Len(Slice(data, 0, 8)) # 8 THEN Raise("struct.error")
        ELSE IF sub_chunk_id \in {TagLabl, TagNote}
        THEN IF Len(Slice(data, 8, 12)) # 4 THEN Raise("struct.error")
             ELSE [raised |-> None,
                   chunk |-> Some([identifier |-> identifier, size |-> size,
                                   sub_chunk_id |-> sub_chunk_id,
                                   ascii_data |->
                                     [cue_point_id |-> <<Unpack(sign, Slice(data, 8, 12))>>,
                                      data |-> SanitizeAscii(Slice(data, 16, Len(data)))]])]
        ELSE IF sub_chunk_id = TagLtxt
        THEN IF Len(Slice(data, 8, 28)) # 20 THEN Raise("struct.error")
             ELSE [raised |-> None,
                   chunk |-> Some([identifier |-> identifier, size |-> size,
                                   sub_chunk_id |-> sub_chunk_id,
                                   ascii_data |->
                                     [cue_point_id |-> Unpack(sign, Slice(data, 8, 12)),
                                      sample_length |-> Unpack(sign, Slice(data, 12, 16)),
                                      purpose_id |-> Unpack(sign, Slice(data, 16, 20)),
                                      country |-> Unpack(sign, Slice(data, 20, 22)),
                                      language |-> Unpack(sign, Slice(data, 22, 24)),
                                      dialect |-> Unpack(sign, Slice(data, 24, 26)),
                                      code_page |-> Unpack(sign, Slice(data, 26, 28)),
                                      data |-> SanitizeAscii(Slice(data, 32, Len(data)))]])]
        ELSE [raised |-> None, chunk |-> Null]

\* the document <a/>, and the text ET.tostring gives for it; the text has
\* no encoding='utf8' for line 1489 to rewrite
XmlDocument == <<60, 97, 47, 62>>
XmlText == "<?xml version='1.0' encoding='utf-8'?>\n<a />"

\* sanitize_fallback(bs, "utf-8") of ASCII bytes, the payloads of the model
SanitizeUtf8(bs) == SanitizeAscii(bs)

\* _pmx, lines 1483-1491: ET.fromstring raises ParseError on a text that is
\* not a well-formed document
_pmx(identifier, size, data) ==
    IF SanitizeUtf8(data) # XmlDocument THEN Raise("ParseError")
    ELSE [raised |-> None,
          chunk |-> Some([identifier |-> identifier, size |-> size, xml |-> XmlText])]


\* SWave.__init__, lines 539-562: no chunk yet, every chunk attribute None
InitAttrs == [n \in ChunkAttrs |-> Null]

\* setattr(self, name, value)
SetAttr(as, name, value) ==
    IF name \in DOMAIN as THEN [as EXCEPT ![name] = value] ELSE as @@ (name :> value)

\* hasattr(self, name) of a name that begins with an underscore: a decoder,
\* or an attribute that a chunk of that name has set
HasAttr(as, name) == name \in DecoderNames \/ name \in DOMAIN as

\* callable(getattr(self, name)): a decoder that no attribute hides
IsDecoder(as, name) == name \in DecoderNames /\ name \notin DOMAIN as

\* lines 594-599
FalseIdentifier(identifier) == Strip(Lower(identifier))

SetName(false_identifier) ==
    IF false_identifier # NameUPmx THEN <<95>> \o false_identifier ELSE false_identifier

\* lines 601-604
Count(counts, false_identifier) ==
    IF false_identifier \in DOMAIN counts THEN counts[false_identifier] + 1 ELSE 1

\* lines 607-611
AttrName(false_identifier, count) ==
    IF count = 1 THEN false_identifier ELSE false_identifier \o DecimalDigits(count)

\* a mutant: the record of a list keeps its size
ListSize_Kept(size) == size

\* line 589
ListSize(size) == size - 12

\* lines 586-592: the chunk that is dispatched, the list type in place of a
\* LIST or adtl chunk
Unwrapped(c) ==
    IF c.identifier = LIST_IDENTIFIER \/ c.identifier = ADTL_IDENTIFIER
    THEN [identifier |-> Strip(Slice(c.data, 0, 4)),
          size |-> ListSize(c.size),
          data |-> Slice(c.data, 4, Len(c.data))]
    ELSE c

IsList(c) == c.identifier = LIST_IDENTIFIER \/ c.identifier = ADTL_IDENTIFIER

\* line 618: the decoder of the name, called once
Decode(name, as, bo, c) ==
    CASE name = NameUFmt -> _fmt(bo, c.identifier, c.size, c.data)
      [] name = NameUData -> _data(c.identifier, c.size, c.data)
      [] name = NameUFact -> _fact(bo, c.identifier, c.size, c.data)
      [] name = NameUInfo -> _info(bo, as[NameInfo], c.identifier, c.size, c.data)
      [] name = NameUAdtl -> _adtl(bo, c.identifier, c.size, c.data)
      [] name = NameUPmx -> _pmx(c.identifier, c.size, c.data)

\* the attributes that hold the one INFO record of the object: info, and
\* info2, info3, ... once set
InfoAliases(as) ==
    {n \in DOMAIN as : Len(n) >= 4 /\ SubSeq(n, 1, 4) = NameInfo /\ as[n] # Null}

\* lines 613-621: the attributes after the chunk d is dispatched under the
\* attribute name a, and the attribute that was set; a decoder that raises
\* ends all_chunks
Dispatch(as, bo, d, set, a) ==
    IF HasAttr(as, set)
    THEN IF IsDecoder(as, set)
         THEN LET r == Decode(set, as, bo, d)
                  name == IF set = NameUPmx THEN NamePmx ELSE a
              IN  IF r.raised # None
                  THEN [raised |-> r.raised, attrs |-> as, slot |-> Null]
                  ELSE IF set = NameUInfo
                  THEN [raised |-> None,
                        attrs |-> [n \in DOMAIN as \cup {name, NameInfo} |->
                                     IF n \in InfoAliases(as) \cup {name, NameInfo}
                                     THEN r.chunk ELSE as[n]],
                        slot |-> Some(name)]
                  ELSE [raised |-> None, attrs |-> SetAttr(as, name, r.chunk),
                        slot |-> Some(name)]
         ELSE [raised |-> None, attrs |-> as, slot |-> Null]
    ELSE [raised |-> None,
          attrs |-> SetAttr(as, a, Some(GenericChunk(d.identifier, d.size, d.data))),
          slot |-> Some(a)]

\* the values that lines 580-583 give the attributes byteorder, master,
\* formtype and ds64: those of the Chunky object, None kept as None
ContextAttrs ==
    (NameByteorder :> (IF byteorder = None THEN Null ELSE Some(byteorder)))
      @@ (NameMaster :> master)
      @@ (NameFormtype :> formtype)
      @@ (NameDs64 :> (IF ds64 = NoDs64 THEN Null ELSE Some(ds64)))

\* lines 580-583: the four attributes are set, whatever they held
SetContext(as) ==
    IF \A n \in DOMAIN ContextAttrs : n \in DOMAIN as /\ as[n] = ContextAttrs[n]
    THEN as
    ELSE ContextAttrs @@ as

\* line 624: int(byte_count / block_align), of two numbers that are not
\* negative
FrameCount(byte_count, block_align) == byte_count \div block_align

\* lines 623-624: the frame count of the attribute data from the attribute fmt
SetFrameCount(as) ==
    IF as[NameFmt] # Null /\ as[NameData] # Null
    THEN IF as[NameFmt][1].block_align = 0
         THEN [raised |-> "ZeroDivisionError", attrs |-> as]
         ELSE [raised |-> None,
               attrs |-> [as EXCEPT ![NameData] =
                            Some([@[1] EXCEPT !.frame_count =
                                    Some(FrameCount(as[NameData][1].byte_count,
                                                    as[NameFmt][1].block_align))])]]
    ELSE [raised |-> None, attrs |-> as]

(***************************************************************************)
(* The chunks the walker hands to all_chunks, one per turn of its loop:    *)
(* complete PCM 'fmt ' chunks of block alignment 0, 1 and 2, a data chunk  *)
(* (its payload skipped by the walker), LISTs of type INFO with one tag,   *)
(* a LIST of type adtl with one label, a LIST whose type ends in spaces, a *)
(* _PMX chunk, a chunk of unknown identifier, a fact chunk cut off by the  *)
(* end of the stream, and a chunk whose identifier is '_fmt'.              *)
(***************************************************************************)
BlockAligns == {0, 1, 2}

FmtChunk(bo, b) ==
    [identifier |-> TagFmt, size |-> 16,
     data |-> SubSeq(FmtPayload([audio_format |-> 1, channel_count |-> b, cmask |-> 0,
                                 guid |-> GuidPcm, pvoc_size |-> 32], bo), 1, 16)]

DataChunk == [identifier |-> TagData, size |-> 4, data |-> <<>>]

\* the tags of the INFO lists
InfoTags == {TagINAM, TagIART}

ListInfoChunk(bo, tag) ==
    [identifier |-> LIST_IDENTIFIER, size |-> 14,
     data |-> INFO_IDENTIFIER \o tag \o Enc32(2, bo) \o <<97, 98>>]

ListAdtlChunk(bo) ==
    [identifier |-> LIST_IDENTIFIER, size |-> 20,
     data |-> ADTL_IDENTIFIER \o TagLabl \o Enc32(8, bo) \o Enc32(1, bo) \o <<104, 105, 0, 0>>]

ListSpacedChunk == [identifier |-> LIST_IDENTIFIER, size |-> 4, data |-> <<97, 98, 32, 32>>]

PmxChunk == [identifier |-> PMX_IDENTIFIER, size |-> 4, data |-> XmlDocument]

UnknownChunk == [identifier |-> TagXXXX, size |-> 2, data |-> <<1, 2>>]

FactCutChunk == [identifier |-> TagFact, size |-> 4, data |-> <<>>]

\* a chunk whose identifier is the name of a decoder
ShadowChunk == [identifier |-> NameUFmt, size |-> 0, data |-> <<>>]

RawChunks(bo) ==
    {FmtChunk(bo, b) : b \in BlockAligns}
      \cup {ListInfoChunk(bo, tag) : tag \in InfoTags}
      \cup {DataChunk, ListAdtlChunk(bo), ListSpacedChunk,
            PmxChunk, UnknownChunk, FactCutChunk, ShadowChunk}

\* the walker is not part of this specification: its variables keep the
\* values of a RIFF or RIFX stream, and each turn of the loop of all_chunks
\* takes the next chunk the walker yields
InitAll ==
    /\ byteorder \in {LITTLE_ENDIAN, BIG_ENDIAN}
    /\ master = Some(IF byteorder = LITTLE_ENDIAN THEN TagRIFF ELSE TagRIFX)
    /\ input = [master |-> master[1], false |-> FALSE, ds64 |-> FALSE,
                table |-> 0, slack |-> 0, body |-> <<>>, cut |-> 0]
    /\ stream = BuildStream(input)
    /\ ignore = FALSE
    /\ pc = "all"
    /\ pos = Len(stream)
    /\ formtype = Some(TagWAVE)
    /\ ds64 = NoDs64
    /\ walk = "riff"
    /\ yielded = <<>>
    /\ error = None
    /\ refpos = pos
    /\ fmtArgs = NoFmtArgs
    /\ fmtRet = NoFmtRet
    /\ bitrate = Null
    /\ bitrate_long = Null
    /\ legacyRet = NoFmtRet
    /\ raw = <<>>
    /\ chunks = <<>>
    /\ chunk_counts = <<>>
    /\ attrs = InitAttrs
    /\ calls = <<>>
    /\ allRaised = None
    /\ chunk_ids = Null
    /\ format = Null

\* one turn of the loop of all_chunks, lines 578-624, on the chunk c
AllChunksStep ==
    /\ pc = "all"
    /\ Len(raw) < MaxChunks
    /\ \E c \in RawChunks(byteorder) :
         \* each value of the turn is bound once
         \E d \in {Unwrapped(c)} :
         \E false_identifier \in {FalseIdentifier(d.identifier)} :
         \E set \in {SetName(false_identifier)} :
         \E count \in {Count(chunk_counts, false_identifier)} :
         \E attr_name \in {AttrName(false_identifier, count)} :
         \E as0 \in {SetContext(attrs)} :
         \E r1 \in {Dispatch(as0, byteorder, d, set, attr_name)} :
         \E r2 \in {IF r1.raised = None THEN SetFrameCount(r1.attrs) ELSE r1} :
         \E isFmt \in {set = NameUFmt /\ IsDecoder(as0, set) /\ r1.raised = None} :
             /\ raw' = Append(raw, c)
             /\ chunks' = chunks \o <<c>> \o (IF IsList(c) THEN <<d>> ELSE <<>>)
             /\ chunk_counts' = SetAttr(chunk_counts, false_identifier, count)
             /\ calls' = Append(calls,
                           [chunk |-> Len(raw) + 1,
                            identifier |-> d.identifier, size |-> d.size, data |-> d.data,
                            false_identifier |-> false_identifier,
                            set |-> set, slot |-> r1.slot,
                            stored |-> IF r1.slot = Null THEN Null
                                       ELSE r1.attrs[r1.slot[1]],
                            decoder |-> IF ~HasAttr(as0, set) THEN "GenericChunk"
                                        ELSE IF IsDecoder(as0, set) THEN "decoder"
                                        ELSE "none"])
             /\ attrs' = r2.attrs
             /\ allRaised' = r2.raised
             /\ pc' = IF r2.raised = None THEN "all" ELSE "all_done"
             /\ bitrate' = IF isFmt THEN Some(r1.attrs[attr_name][1].byte_rate * 8) ELSE bitrate
             /\ bitrate_long' = IF isFmt
                                THEN Some(BitrateLong(r1.attrs[attr_name][1].byte_rate * 8))
                                ELSE bitrate_long
    /\ UNCHANGED <<input, stream, ignore, pos, master, byteorder, formtype, ds64,
                   walk, yielded, error, refpos, fmtArgs, fmtRet, legacyRet, chunk_ids,
                   format>>

\* the walker is exhausted: all_chunks returns and SWave.__init__, line 568,
\* lists the identifiers
AllChunksEnd ==
    /\ pc = "all"
    /\ chunk_ids' = Some([i \in 1..Len(chunks) |-> chunks[i].identifier])
    /\ pc' = "all_done"
    /\ UNCHANGED <<input, stream, ignore, pos, master, byteorder, formtype, ds64,
                   walk, yielded, error, refpos, fmtArgs, fmtRet, bitrate, bitrate_long,
                   legacyRet, raw, chunks, chunk_counts, attrs, calls, allRaised,
                   format>>

NextAll == AllChunksStep \/ AllChunksEnd

SpecAll == InitAll /\ [][NextAll]_vars

\* the call of _fmt has ended
FmtDone == pc = "fmt_done"

\* the audio format code of the common header of the payload, when the
\* payload holds the 16 bytes of the header
HeaderFormat ==
    IF Len(fmtArgs.data) >= 16
    THEN Some(IntFromBytes(SubSeq(fmtArgs.data, 1, 2), byteorder))
    ELSE Null

\* the record has none of the extension fields
NoExtension(c) ==
    /\ c.extension_size = Null
    /\ c.valid_bits_per_sample = Null
    /\ c.channel_mask = Null
    /\ c.speaker_layout = Null
    /\ c.subformat = [pvoc_ex |-> Null]
    /\ \A k \in PvocFields : c[k] = Null

(***************************************************************************)
(* C9: the decoder of the 'fmt ' chunk never fails: whatever the byte      *)
(* order, the declared size and the payload, short payloads included, the  *)
(* call returns a record and raises no exception.                          *)
(***************************************************************************)
C9_NeverRaises == FmtDone => fmtRet.raised = None /\ fmtRet.chunk # Null

(***************************************************************************)
(* C10: the decoder returns the PCM variant with no diagnostic exactly     *)
(* when the audio format code is 1 and the declared size is 16: every      *)
(* chunk of declared size 16 whose header holds the code 1 decodes to      *)
(* WAVE_FORMAT_PCM with an empty sanity list and no extension field, and   *)
(* every record that is WAVE_FORMAT_PCM with an empty sanity list has      *)
(* audio format 1 and size 16.                                             *)
(***************************************************************************)
C10_PcmExactly ==
    FmtDone =>
      /\ (HeaderFormat = Some(1) /\ fmtArgs.size = 16) =>
            /\ fmtRet.raised = None
            /\ fmtRet.chunk # Null
            /\ fmtRet.chunk[1].mode = Some(WAVE_FORMAT_PCM)
            /\ fmtRet.chunk[1].sanity = <<>>
            /\ NoExtension(fmtRet.chunk[1])
      /\ (/\ fmtRet.chunk # Null
          /\ fmtRet.chunk[1].mode = Some(WAVE_FORMAT_PCM)
          /\ fmtRet.chunk[1].sanity = <<>>) =>
            /\ fmtRet.chunk[1].audio_format = 1
            /\ fmtRet.chunk[1].size = 16
            /\ HeaderFormat = Some(1)
            /\ fmtArgs.size = 16

C10_Witness ==
    /\ FmtDone
    /\ byteorder = BIG_ENDIAN
    /\ fmtArgs.size = 16
    /\ HeaderFormat = Some(1)
    /\ fmtRet.chunk # Null
    /\ fmtRet.chunk[1].mode = Some(WAVE_FORMAT_PCM)
    /\ fmtRet.chunk[1].sanity = <<>>
    /\ fmtRet.chunk[1].channel_count = 2

\* the call of WaveFormat has ended
LegacyDone == legacyRet # NoFmtRet

\* the diagnostic of a non-PCM format without an extension
NonPcmDiagnostic ==
    PerverseError(FORMAT_CHUNK_LOCATION \o " -- AUDIO FORMAT / SIZE",
                  "NON-PCM FORMATS MUST CONTAIN AN EXTENSION FIELD.")

\* a chunk of declared size 16 whose header holds a format code other than 1
NonPcmSize16 == HeaderFormat # Null /\ HeaderFormat # Some(1) /\ fmtArgs.size = 16

(***************************************************************************)
(* C11: a 'fmt ' chunk of declared size 16 with a format code other than 1 *)
(* (6, 0xFFFE, ...) decodes without an exception to a header-only record:  *)
(* the diagnostic NON-PCM FORMATS MUST CONTAIN AN EXTENSION FIELD, mode    *)
(* unresolved and no extension field.  Stated of both decoders of the      *)
(* chunk, SWave._fmt and WaveFormat.get_format.                            *)
(***************************************************************************)
C11_NonPcmHeaderOnly ==
    NonPcmSize16 =>
      /\ FmtDone =>
            /\ fmtRet.raised = None
            /\ fmtRet.chunk # Null
            /\ fmtRet.chunk[1].sanity = <<NonPcmDiagnostic>>
            /\ fmtRet.chunk[1].mode = Null
            /\ NoExtension(fmtRet.chunk[1])
      /\ LegacyDone =>
            /\ legacyRet.raised = None
            /\ legacyRet.chunk # Null
            /\ legacyRet.chunk[1].sanity = <<NonPcmDiagnostic>>
            /\ legacyRet.chunk[1].mode = Null
            /\ legacyRet.chunk[1].extension_size = Null
            /\ legacyRet.chunk[1].subformat = Null

\* the channel mask of the payload, when the payload holds it
HeaderMask ==
    IF Len(fmtArgs.data) >= 24
    THEN Some(IntFromBytes(SubSeq(fmtArgs.data, 21, 24), byteorder))
    ELSE Null

\* entry i of the table has its bit set in the mask m
MaskBitSet(m, i) == (m \div GENERIC_CHANNEL_MASK_MAP[i].bit) % 2 = 1

\* the entries of the table up to entry i whose bit is set in the mask m
SetUpTo(m, i) == {j \in 1..i : MaskBitSet(m, j)}

(***************************************************************************)
(* C12: the record of an extensible 'fmt ' chunk (format code 0xFFFE,      *)
(* declared size 40) lists one speaker per entry of the table whose bit is *)
(* set in the channel mask, and nothing else, in the order of the table:   *)
(* the k-th set entry of the table is the k-th name of the layout.  The    *)
(* channel mask 3 gives two names.  A complete chunk always decodes.       *)
(***************************************************************************)
C12_SpeakerLayout ==
    (FmtDone /\ HeaderFormat = Some(EXTENSIBLE) /\ fmtArgs.size = 40) =>
      /\ Len(fmtArgs.data) = 40 => fmtRet.chunk # Null
      /\ fmtRet.chunk # Null =>
           LET c == fmtRet.chunk[1]
               m == HeaderMask[1]
               n == Len(GENERIC_CHANNEL_MASK_MAP)
           IN  /\ c.mode = Some(WAVE_FORMAT_EXTENSIBLE)
               /\ c.speaker_layout # Null
               /\ Len(c.speaker_layout[1]) = Cardinality(SetUpTo(m, n))
               /\ \A i \in SetUpTo(m, n) :
                     c.speaker_layout[1][Cardinality(SetUpTo(m, i))]
                        = GENERIC_CHANNEL_MASK_MAP[i].name
               /\ m = 3 => Len(c.speaker_layout[1]) = 2

C12_Witness ==
    /\ FmtDone
    /\ HeaderFormat = Some(EXTENSIBLE)
    /\ fmtArgs.size = 40
    /\ HeaderMask = Some(3)
    /\ fmtRet.chunk # Null
    /\ fmtRet.chunk[1].speaker_layout = Some(<<"Front Left", "Front Right">>)

\* all_chunks has returned and SWave.__init__ has listed the identifiers
Assembled == pc = "all_done" /\ allRaised = None

\* the attribute of the k-th occurrence of a name
SlotName(name, k) == IF k = 1 THEN name ELSE name \o DecimalDigits(k)

\* the value of a chunk attribute of the object, None if it was never set
Slot(name) == IF name \in DOMAIN attrs THEN attrs[name] ELSE Null

\* the stream holds two pairs of a 'fmt ' chunk and a data chunk in sequence
TwoPairs ==
    /\ Len(raw) = 4
    /\ raw[1].identifier = TagFmt /\ raw[2].identifier = TagData
    /\ raw[3].identifier = TagFmt /\ raw[4].identifier = TagData

\* the block alignment of a 'fmt ' chunk of the stream, bytes 12-13 of its
\* payload
RawBlockAlign(c) == IntFromBytes(SubSeq(c.data, 13, 14), byteorder)

(***************************************************************************)
(* C13: after a stream of two fmt/data pairs in sequence, none with a zero *)
(* block alignment, is assembled, the object has the attributes fmt, fmt2, *)
(* data and data2, and the frame count of each data attribute is its byte  *)
(* count divided, as integers, by the block alignment of its own 'fmt '    *)
(* chunk: data by fmt, data2 by fmt2.                                      *)
(***************************************************************************)
C13_PairedFrameCount ==
    (/\ pc = "all_done"
     /\ TwoPairs
     /\ RawBlockAlign(raw[1]) # 0
     /\ RawBlockAlign(raw[3]) # 0)
    => /\ Assembled
       /\ \A k \in 1..2 :
            /\ Slot(SlotName(NameFmt, k)) # Null
            /\ Slot(SlotName(NameData, k)) # Null
            /\ Slot(SlotName(NameFmt, k))[1].block_align = RawBlockAlign(raw[2 * k - 1])
            /\ Slot(SlotName(NameData, k))[1].frame_count
                 = Some(raw[2 * k].size \div RawBlockAlign(raw[2 * k - 1]))

\* the canonical attribute name of a normalised identifier: the identifier,
\* and pmx for _pmx (line 617)
Canonical(false_identifier) ==
    IF false_identifier = NameUPmx THEN NamePmx ELSE false_identifier

\* the dispatch i is of the k-th occurrence of its normalised identifier
Occurrence(i) ==
    Cardinality({j \in 1..i : calls[j].false_identifier = calls[i].false_identifier})

\* a record without the frame count that line 624 writes into it later
Decoded(v) ==
    IF v # Null /\ "frame_count" \in DOMAIN v[1]
    THEN Some([v[1] EXCEPT !.frame_count = Null])
    ELSE v

(***************************************************************************)
(* C14: after assembly, the record of the k-th occurrence of a normalised  *)
(* identifier is in the attribute of the canonical name for k = 1 and of   *)
(* the name followed by k for k = 2, 3, ..., and it is there as it was     *)
(* stored: no later chunk has replaced or changed it.                      *)
(***************************************************************************)
C14_OccurrenceSlots ==
    Assembled =>
      \A i \in DOMAIN calls :
         LET name == SlotName(Canonical(calls[i].false_identifier), Occurrence(i))
         IN  /\ calls[i].slot = Some(name)
             /\ Decoded(Slot(name)) = Decoded(calls[i].stored)

\* the first four payload bytes of a list, its list type
ListType(c) == SubSeq(c.data, 1, Min(4, Len(c.data)))

\* the record that follows a LIST or adtl chunk in self.chunks, with the
\* identifier id
Synthetic(c, id) ==
    [identifier |-> id, size |-> c.size - 12, data |-> SubSeq(c.data, 5, Len(c.data))]

\* the walked chunks cs, each LIST or adtl chunk followed by its synthetic
\* record; the list type is stripped of surrounding white space if strip
RECURSIVE Expanded(_, _)
Expanded(cs, strip) ==
    IF cs = <<>> THEN <<>>
    ELSE LET c == Head(cs)
             id == IF strip THEN Strip(ListType(c)) ELSE ListType(c)
         IN  <<c>>
             \o (IF c.identifier \in {LIST_IDENTIFIER, ADTL_IDENTIFIER}
                 THEN <<Synthetic(c, id)>> ELSE <<>>)
             \o Expanded(Tail(cs), strip)

Identifiers(cs) == [i \in 1..Len(cs) |-> cs[i].identifier]

(***************************************************************************)
(* C15: self.chunks is the sequence of the walked chunks in stream order   *)
(* with, right after each chunk whose identifier is LIST or adtl, one      *)
(* record whose identifier is the first 4 payload bytes stripped of        *)
(* surrounding white space, whose size is the size minus 12 and whose      *)
(* payload is the payload without its first 4 bytes; a record added this   *)
(* way is not unwrapped again; and chunk_ids, once set, is the sequence of *)
(* the identifiers of self.chunks.                                         *)
(***************************************************************************)
C15_ListUnwrap ==
    pc \in {"all", "all_done"} =>
      /\ chunks = Expanded(raw, TRUE)
      /\ chunk_ids # Null => chunk_ids = Some(Identifiers(chunks))

\* an assembled stream with a LIST of type adtl, whose record adtl is not
\* unwrapped, and a LIST whose type ends in spaces
C15_Witness ==
    /\ Assembled
    /\ \E i, j \in DOMAIN raw : raw[i] = ListAdtlChunk(byteorder) /\ raw[j] = ListSpacedChunk
    /\ \E i \in DOMAIN chunks :
         /\ chunks[i].identifier = ADTL_IDENTIFIER
         /\ chunks[i].size = 8
         /\ i < Len(chunks) => chunks[i + 1].identifier = LIST_IDENTIFIER
    /\ Len(chunk_ids[1]) = 2 * Len(raw)

\* the statement as the specification words it: the identifier of the
\* added record is the first 4 payload bytes as they are
C15_Original ==
    pc \in {"all", "all_done"} =>
      /\ chunks = Expanded(raw, FALSE)
      /\ chunk_ids # Null => chunk_ids = Some(Identifiers(Expanded(raw, FALSE)))

(***************************************************************************)
(* C16: assembly never aborts on a chunk: no decoder error and no division *)
(* by a zero block alignment ends all_chunks, so the walk always reaches   *)
(* its end and chunk_ids is set, and a chunk whose identifier has no       *)
(* decoder is stored as a generic record of its identifier, size and       *)
(* payload.                                                                *)
(***************************************************************************)
C16_NeverAborts ==
    /\ allRaised = None
    /\ pc = "all_done" => chunk_ids # Null
    /\ \A i \in DOMAIN calls :
         calls[i].set \notin DecoderNames =>
           calls[i].stored
             = Some(GenericChunk(calls[i].identifier, calls[i].size, calls[i].data))

\* an identifier case-folded and without its trailing spaces
Normalised(identifier) == Reverse(LStrip(Reverse(Lower(identifier))))

(***************************************************************************)
(* C17: every chunk the walker yields is dispatched exactly once, and the  *)
(* decoder is chosen by the normalised identifier of the dispatched record *)
(* alone: the decoder of that name if SWave has one (_fmt for every 'fmt ' *)
(* chunk), GenericChunk if not, whatever chunks came before.               *)
(***************************************************************************)
C17_DispatchByIdentifier ==
    pc \in {"all", "all_done"} =>
      /\ Len(calls) = Len(raw)
      /\ \A i \in DOMAIN calls :
           LET name == SetName(Normalised(calls[i].identifier))
           IN  /\ calls[i].chunk = i
               /\ calls[i].set = name
               /\ calls[i].decoder = IF name \in DecoderNames THEN "decoder"
                                     ELSE "GenericChunk"

(***************************************************************************)
(* The walker again: sizes and the ds64 chunk.                             *)
(***************************************************************************)
\* the value of the size field of a yielded chunk
OwnSize(y) == IntFromBytes(StreamRead(y.idAt + 4, 4), byteorder)

\* the size of a yielded chunk before padding: in the walk of _rf64 the
\* ds64 data size for data and the ds64 sample count for fact, else the
\* value of its size field
SizeBeforePadding(y) ==
    IF walk = "rf64" /\ y.identifier = TagData
    THEN ds64.data_low_size + ds64.data_high_size * 65536 * 65536
    ELSE IF walk = "rf64" /\ y.identifier = TagFact
    THEN ds64.sample_low_count + ds64.sample_high_count * 65536 * 65536
    ELSE OwnSize(y)

(***************************************************************************)
(* C18: in both walks the yielded size of a chunk is its size, from the    *)
(* size field or from ds64, plus one when that size is odd and the         *)
(* identifier is not bext; an even size and the size of bext are yielded   *)
(* unchanged, so every yielded size is even unless the chunk is bext.      *)
(***************************************************************************)
C18_Padding ==
    \A y \in Yielded :
      LET n == SizeBeforePadding(y)
      IN  /\ n % 2 = 1 /\ y.identifier # TagBext => y.size = n + 1
          /\ n % 2 = 0 \/ y.identifier = TagBext => y.size = n
          /\ y.identifier # TagBext => y.size % 2 = 0

\* a walk of _rf64 that yielded a bext chunk of odd size and a data chunk
\* whose odd ds64 size was made even
C18_Witness ==
    /\ pc = "done"
    /\ walk = "rf64"
    /\ \E y \in Yielded : y.identifier = TagBext /\ y.size = 1
    /\ \E y \in Yielded :
         y.identifier = TagData /\ ds64.data_low_size = 1 /\ y.size = 2

\* a size made even
Even(n) == n + (n % 2)

Ds64End == 20 + ds64.chunk_size

(***************************************************************************)
(* C20: once the ds64 chunk of an untruncated stream is parsed, the walk   *)
(* resumes at the end of the ds64 chunk as its size field gives it, after  *)
(* its table: no chunk is read from an offset inside the ds64 chunk, and   *)
(* the first chunk yielded is read at that end and has the identifier of   *)
(* the first chunk after ds64, when that chunk is one the walker yields.   *)
(***************************************************************************)
C20_ResumeAfterDs64 ==
    (input.ds64 /\ input.cut = 0 /\ ds64 # NoDs64) =>
      /\ \A y \in Yielded : y.idAt >= Ds64End
      /\ Len(yielded) >= 1 /\ input.body[1].id \notin {TagAfsp, NULL_IDENTIFIER} =>
           /\ yielded[1].idAt = Ds64End
           /\ yielded[1].identifier = input.body[1].id
(***************************************************************************)
(* The walker on streams with the identifiers it gives no chunk for: the   *)
(* all-zero identifier, afsp, and the markers DISP and LIST that end the   *)
(* scan after afsp.                                                        *)
(***************************************************************************)
TailIds == {NULL_IDENTIFIER, TagAfsp, TagDISP, TagLIST, TagFmt}

TailTemplates == [id : TailIds, size : 0..MaxSize]

TailBodies ==
    { b \in UNION { [1..n -> TailTemplates] : n \in 0..(MaxBody \div 8) } :
        BodyLen(b) <= MaxBody }

\* RIFF and RIFX streams that carry their size, RF64 and BW64 streams with
\* the sentinel and a ds64 chunk; the end of a stream of one or two chunks
\* may be cut off
TailInputs ==
    { in \in [master : {TagRIFF, TagRIFX, TagRF64, TagBW64}, false : BOOLEAN,
              ds64 : BOOLEAN, table : {0}, slack : {0}, body : TailBodies,
              cut : 0..MaxCut] :
        /\ in.false = in.ds64
        /\ in.ds64 <=> in.master \in {TagRF64, TagBW64}
        /\ Len(in.body) = 0 => in.cut = 0
        /\ Len(in.body) > 2 => in.cut = 0 }

InitTail ==
    /\ input \in TailInputs
    /\ stream = BuildStream(input)
    /\ ignore \in BOOLEAN
    /\ pc = "start"
    /\ pos = 0
    /\ master = Null
    /\ byteorder = None
    /\ formtype = Null
    /\ ds64 = NoDs64
    /\ walk = None
    /\ yielded = <<>>
    /\ error = None
    /\ refpos = 0
    /\ fmtArgs = NoFmtArgs
    /\ fmtRet = NoFmtRet
    /\ bitrate = Null
    /\ bitrate_long = Null
    /\ legacyRet = NoFmtRet
    /\ AsmIdle
    /\ format = Null

SpecTail == InitTail /\ [][Next]_vars

\* an untruncated stream without afsp chunk: the walker reads an identifier
\* at the offset of every chunk of the body
Aligned(in) == in.cut = 0 /\ \A i \in 1..Len(in.body) : in.body[i].id # TagAfsp

(***************************************************************************)
(* C21: in the walk of _rf64 an all-zero identifier is never yielded and   *)
(* ends the walk: no chunk at or after the offset of an all-zero           *)
(* identifier that the walker reads is yielded.                            *)
(***************************************************************************)
C21_NullEndsWalk ==
    (walk = "rf64" /\ Aligned(input)) =>
      /\ \A y \in Yielded : y.identifier # NULL_IDENTIFIER
      /\ \A i \in 1..Len(input.body) :
           input.body[i].id = NULL_IDENTIFIER
             => \A y \in Yielded : y.idAt < ChunkStart(input, i)
\* the offset where the walk of the chunks starts: after the 12-byte header,
\* and after the ds64 chunk and its table in the walk of _rf64
WalkStart == IF walk = "rf64" THEN 48 + 12 * ds64.table_entry_count ELSE 12

\* the offset the walker reads an identifier at after j chunks are yielded,
\* when no chunk without yield lies in between
AfterYield(j) == IF j = 0 THEN WalkStart ELSE yielded[j].next

\* the offsets at or after p where the 4 bytes DISP or LIST lie
Markers(p) ==
    {q \in p..(Len(stream) - 4) : SubSeq(stream, q + 1, q + 4) \in {TagDISP, TagLIST}}

\* the first of them; -1 when there is none
Boundary(p) ==
    IF Markers(p) = {} THEN -1
    ELSE CHOOSE q \in Markers(p) : \A r \in Markers(p) : q <= r

\* the reads of 4 bytes that _skip_afsp makes from position p
RECURSIVE ScanReads(_)
ScanReads(p) ==
    LET next == StreamRead(p, 4)
    IN  IF Len(next) < 4 \/ next \in {TagDISP, TagLIST} THEN 1
        ELSE 1 + ScanReads(SeekCur(p + 4, -3))

(***************************************************************************)
(* C22: in both walks an afsp identifier yields no chunk; the scan that    *)
(* follows it ends after no more reads than the stream has bytes left, and *)
(* within the stream; the next chunk yielded, if any, is read at the first *)
(* offset after the afsp identifier where the bytes DISP or LIST lie; and  *)
(* when there is no such offset the walk ends at the end of the stream     *)
(* with no error and no further chunk.                                     *)
(***************************************************************************)
C22_AfspScan ==
    walk # None /\ (walk = "rf64" => ds64 # NoDs64) =>
      /\ \A y \in Yielded : y.identifier # TagAfsp
      /\ \A j \in 0..Len(yielded) :
           StreamRead(AfterYield(j), 4) = TagAfsp =>
             LET from == AfterYield(j) + 4
                 b == Boundary(from)
             IN  /\ ScanReads(from) <= Len(stream) - from + 1
                 /\ skip_afsp(from) \in from..Len(stream)
                 /\ error = None
                 /\ j < Len(yielded) =>
                      /\ b # -1
                      /\ yielded[j + 1].idAt = b
                      /\ yielded[j + 1].identifier \in {TagDISP, TagLIST}
                 /\ b = -1 /\ (j < Len(yielded) \/ pc = "done") =>
                      /\ Len(yielded) = j
                      /\ pos = Len(stream)

\* a walk of _rf64 that met afsp right after the ds64 chunk, scanned over
\* the ten bytes that follow the identifier and yielded the LIST chunk found
\* there
C22_Witness ==
    /\ pc = "done"
    /\ walk = "rf64"
    /\ StreamRead(WalkStart, 4) = TagAfsp
    /\ Len(yielded) = 1
    /\ yielded[1].identifier = TagLIST
    /\ yielded[1].idAt = WalkStart + 10
    /\ Len(yielded[1].data) = 2
(***************************************************************************)
(* The 'fmt ' decoder again: the sizes and the GUID of the extensible      *)
(* layouts.                                                                *)
(***************************************************************************)
\* the 16 bytes of the sub-format GUID of the payload, when the payload
\* holds them
PayloadGuid ==
    IF Len(fmtArgs.data) >= 40 THEN Some(SubSeq(fmtArgs.data, 25, 40)) ELSE Null

\* the bytes of the two representations of the PVOC-EX GUID
PvocGuids == {GuidPvoc, GuidPvocUpper}

\* the payload holds a GUID, and it is a PVOC-EX GUID
IsPvocGuid == PayloadGuid # Null /\ PayloadGuid[1] \in PvocGuids

\* the diagnostic of an extensible chunk whose size is not 40
ExtensibleSizeDiagnostic(size) ==
    PerverseError(FORMAT_CHUNK_LOCATION \o " -- AUDIO FORMAT / SIZE",
                  "AUDIO FORMAT (EXTENSIBLE / 65534 / 0xFFFE) MUST BE SIZE 40 NOT "
                    \o ToString(size))

\* the diagnostic of a PCM chunk whose size is not 16
PcmSizeDiagnostic(size) ==
    PerverseError(FORMAT_CHUNK_LOCATION \o " -- AUDIO FORMAT / SIZE",
                  "AUDIO FORMAT (PCM / 1 / 0x0001) MUST BE SIZE 16 NOT "
                    \o ToString(size) \o ".")

\* the record c has a diagnostic, and a diagnostic of the location
HasDiagnostic(c, d) == \E i \in DOMAIN c.sanity : c.sanity[i] = d
HasDiagnosticAt(c, location) == \E i \in DOMAIN c.sanity : c.sanity[i][1] = location

(***************************************************************************)
(* C23: a 'fmt ' chunk of format code 0xFFFE and a declared size other     *)
(* than 16 decodes to a record, and the record has a size diagnostic when  *)
(* the size is not that of its layout: the diagnostic EXTENSIBLE MUST BE   *)
(* SIZE 40 when the GUID is not a PVOC-EX GUID and the size is not 40, and *)
(* a diagnostic of the location PVOC-EX SIZE when the GUID is a PVOC-EX    *)
(* GUID and the size is not 80.                                            *)
(***************************************************************************)
C23_SizeDiagnostics ==
    (FmtDone /\ HeaderFormat = Some(EXTENSIBLE) /\ fmtArgs.size # 16) =>
      /\ fmtRet.raised = None
      /\ fmtRet.chunk # Null
      /\ PayloadGuid # Null /\ ~IsPvocGuid /\ fmtArgs.size # 40
           => HasDiagnostic(fmtRet.chunk[1], ExtensibleSizeDiagnostic(fmtArgs.size))
      /\ IsPvocGuid /\ fmtArgs.size # 80
           => HasDiagnosticAt(fmtRet.chunk[1], FORMAT_CHUNK_LOCATION \o " -- PVOC-EX SIZE")

(***************************************************************************)
(* C24: a 'fmt ' chunk of format code 0xFFFE and declared size 80 whose    *)
(* GUID is one of the two representations of the PVOC-EX GUID decodes to   *)
(* WAVE_FORMAT_PVOC_EX with version, pvoc_size and the ten analysis fields *)
(* set; a record of a chunk whose GUID is neither representation is never  *)
(* WAVE_FORMAT_PVOC_EX and has no PVOC-EX field.                           *)
(***************************************************************************)
C24_PvocExByGuid ==
    (FmtDone /\ HeaderFormat = Some(EXTENSIBLE)) =>
      /\ IsPvocGuid /\ fmtArgs.size = 80 =>
           /\ fmtRet.raised = None
           /\ fmtRet.chunk # Null
           /\ fmtRet.chunk[1].mode = Some(WAVE_FORMAT_PVOC_EX)
           /\ \A k \in PvocFields : fmtRet.chunk[1][k] # Null
           /\ fmtRet.chunk[1].subformat.pvoc_ex # Null
      /\ ~IsPvocGuid /\ fmtRet.chunk # Null =>
           /\ fmtRet.chunk[1].mode # Some(WAVE_FORMAT_PVOC_EX)
           /\ \A k \in PvocFields : fmtRet.chunk[1][k] = Null
           /\ fmtRet.chunk[1].subformat.pvoc_ex = Null

(***************************************************************************)
(* C25: a 'fmt ' chunk that is neither of a format code other than 1 with  *)
(* declared size 16 nor of format code 0xFFFE decodes to exactly one       *)
(* variant, chosen by the declared size alone: size 18 gives               *)
(* WAVE_FORMAT_EXTENDED with extension_size read from bytes 16-18 of the   *)
(* payload and no diagnostic; every other size gives WAVE_FORMAT_PCM, with *)
(* the one diagnostic PCM MUST BE SIZE 16 when the size is not 16 and none *)
(* when it is, whatever the format code.                                   *)
(***************************************************************************)
C25_DecisionOrder ==
    (/\ FmtDone
     /\ HeaderFormat # Null
     /\ ~(HeaderFormat # Some(1) /\ fmtArgs.size = 16)
     /\ HeaderFormat # Some(EXTENSIBLE)) =>
      /\ fmtRet.raised = None
      /\ fmtRet.chunk # Null
      /\ fmtRet.chunk[1].mode \in {Some(WAVE_FORMAT_PCM), Some(WAVE_FORMAT_EXTENDED)}
      /\ fmtArgs.size = 18 =>
           /\ fmtRet.chunk[1].mode = Some(WAVE_FORMAT_EXTENDED)
           /\ fmtRet.chunk[1].extension_size
                = Some(IntFromBytes(Slice(fmtArgs.data, 16, 18), byteorder))
           /\ fmtRet.chunk[1].sanity = <<>>
      /\ fmtArgs.size # 18 =>
           /\ fmtRet.chunk[1].mode = Some(WAVE_FORMAT_PCM)
           /\ fmtRet.chunk[1].extension_size = Null
           /\ fmtRet.chunk[1].sanity
                = IF fmtArgs.size # 16 THEN <<PcmSizeDiagnostic(fmtArgs.size)>> ELSE <<>>

(***************************************************************************)
(* C26: in the record of an extensible 'fmt ' chunk the format code of the *)
(* sub-format is bytes 24-26 of the payload read little-endian, whatever   *)
(* the byte order of the stream, and the fields of the common header and   *)
(* of the extension are read in the byte order of the stream.              *)
(***************************************************************************)
C26_SubformatLittleEndian ==
    (/\ FmtDone
     /\ fmtRet.chunk # Null
     /\ fmtRet.chunk[1].mode \in {Some(WAVE_FORMAT_EXTENSIBLE), Some(WAVE_FORMAT_PVOC_EX)}) =>
      LET c == fmtRet.chunk[1]
          Field(a, b) == IntFromBytes(Slice(fmtArgs.data, a, b), byteorder)
      IN  /\ c.subformat.audio_format = FromLittle(Slice(fmtArgs.data, 24, 26))
          /\ c.audio_format = Field(0, 2)
          /\ c.channel_count = Field(2, 4)
          /\ c.sample_rate = Field(4, 8)
          /\ c.byte_rate = Field(8, 12)
          /\ c.block_align = Field(12, 14)
          /\ c.bits_per_sample = Field(14, 16)
          /\ c.extension_size = Some(Field(16, 18))
          /\ c.valid_bits_per_sample = Some(Field(18, 20))
          /\ c.channel_mask = Some(Format016b(Field(20, 24)))
\* the stream context of the walker
Context == <<master, byteorder, formtype, ds64>>

\* the masters of the big-endian containers
BigMasters == {TagRIFX, TagFIRR, TagFFIR}

\* once a chunk is yielded the header has fixed master, byte order and form
\* type, and the byte order is the one of the master
ContextFixed ==
    /\ yielded # <<>> =>
         /\ master # Null
         /\ formtype # Null
         /\ byteorder \in {LITTLE_ENDIAN, BIG_ENDIAN}
         /\ master = Some(StreamRead(0, 4))
         /\ formtype = Some(StreamRead(8, 4))
    /\ byteorder # None =>
         byteorder = IF master[1] \in BigMasters THEN BIG_ENDIAN ELSE LITTLE_ENDIAN
    /\ ds64 # NoDs64 => walk = "rf64"

\* a step after the header is read keeps master, byte order and form type;
\* a step that changes ds64 is the first capture, with no chunk yielded
\* before or in it; a step of a decoder or of the registry changes none
ContextKept ==
    /\ pc # "start" => /\ master' = master
                       /\ byteorder' = byteorder
                       /\ formtype' = formtype
    /\ ds64' # ds64 => /\ ds64 = NoDs64
                       /\ yielded = <<>>
                       /\ yielded' = <<>>
    /\ pc \in {"fmt", "fmt_done", "all", "all_done"} => UNCHANGED Context

(***************************************************************************)
(* C27: during one decode master, byte order and form type are fixed by    *)
(* the 12-byte header before the first chunk is yielded and keep their     *)
(* value at every later step; the byte order is a function of the master   *)
(* alone; ds64 is captured at most once, before the first chunk is         *)
(* yielded; and no step of a decoder changes any of the four.              *)
(***************************************************************************)
C27_ContextFrame == []ContextFixed /\ [][ContextKept]_vars

\* a walk of _rf64 in a BW64 stream that captured ds64 and yielded two
\* chunks
C27_Witness ==
    /\ pc = "done"
    /\ walk = "rf64"
    /\ master = Some(TagBW64)
    /\ byteorder = LITTLE_ENDIAN
    /\ formtype = Some(TagWAVE)
    /\ ds64 # NoDs64
    /\ ds64.table_entry_count = 1
    /\ Len(yielded) = 2
\* the dispatches that stored a record
Stored == {i \in DOMAIN calls : calls[i].slot # Null}

C30_ContextExposed ==
    Assembled =>
      \A n \in DOMAIN ContextAttrs :
         n \in DOMAIN attrs /\ attrs[n] = ContextAttrs[n]

(***************************************************************************)
(* The sniffer, signatures.py.  A signature is the identity it stands for, *)
(* the bytes of the master identifier and of the form type in one string,  *)
(* the length of the first part, and the offsets both parts are read at.   *)
(***************************************************************************)
Format(base, container, description, endian) ==
    [base |-> base, container |-> container, description |-> description,
     endian |-> endian]

Signature(identity, identifier, size) ==
    [identity |-> identity, identifier |-> identifier, size |-> size,
     offset |-> 0, soffset |-> 8]

SIGNATURES ==
    << Signature(Format("WAVE", "RIFF", "Type [WAVE] derived from [RIFF]", "little"),
                 <<82, 73, 70, 70, 87, 65, 86, 69>>, 4),
       Signature(Format("WAVE", "RF64", "Type [WAVE] derived from [RF64]", "little"),
                 <<82, 70, 54, 52, 87, 65, 86, 69>>, 4),
       Signature(Format("WAVE", "BW64", "Type [WAVE] derived from [BW64]", "little"),
                 <<66, 87, 54, 52, 87, 65, 86, 69>>, 4),
       Signature(Format("WAVE", "RIFX", "Type [WAVE] derived from [RIFX]", "big"),
                 <<82, 73, 70, 88, 87, 65, 86, 69>>, 4),
       Signature(Format("WAVE", "FFIR", "Type [WAVE] derived from [FFIR]", "big"),
                 <<70, 70, 73, 82, 87, 65, 86, 69>>, 4) >>

\* seek(p) and read(n) on the stream s
ReadAt(s, p, n) == SubSeq(s, p + 1, Min(p + n, Len(s)))

\* surface, lines 70-86, from the signature i on: what it returns and the
\* position it leaves the stream at (p when no signature is left)
RECURSIVE SurfaceFrom(_, _, _)
SurfaceFrom(s, i, p) ==
    IF i > Len(SIGNATURES) THEN [identity |-> Null, pos |-> p]
    ELSE LET signature == SIGNATURES[i]
             identifier == ReadAt(s, signature.offset, signature.size)
             remaining_bytes == SubSeq(signature.identifier, signature.size + 1,
                                       Len(signature.identifier))
             sub_signature == ReadAt(s, signature.soffset, Len(remaining_bytes))
         IN  IF identifier = SubSeq(signature.identifier, 1, signature.size)
             THEN IF Len(signature.identifier) > signature.size
                  THEN IF remaining_bytes = sub_signature
                       THEN [identity |-> Some(signature.identity),
                             pos |-> signature.soffset + Len(sub_signature)]
                       ELSE SurfaceFrom(s, i + 1, signature.soffset + Len(sub_signature))
                  ELSE [identity |-> Some(signature.identity),
                        pos |-> signature.offset + Len(identifier)]
             ELSE SurfaceFrom(s, i + 1, signature.offset + Len(identifier))

surface(s) == SurfaceFrom(s, 1, 0).identity

\* Silver calls the sniffer on the stream before it builds the SWave object
Surface ==
    /\ pc = "start"
    /\ format = Null
    /\ format' = Some(surface(stream))
    /\ pos' = SurfaceFrom(stream, 1, 0).pos
    /\ UNCHANGED <<input, stream, ignore, pc, master, byteorder, formtype, ds64,
                   walk, yielded, error, refpos>>
    /\ UNCHANGED fmtVars
    /\ UNCHANGED asmVars

\* the streams given to the sniffer and to the walker: those of Inputs with
\* one chunk at most, the form type being WAVE or another one
SniffForms == {TagWAVE, TagXXXX}

SniffInputs ==
    { in \in [master : Masters, false : BOOLEAN, ds64 : BOOLEAN, table : {0},
              slack : {0}, body : {b \in Bodies : Len(b) <= 1}, cut : 0..MaxCut,
              form : SniffForms] :
        /\ in.ds64 => in.false
        /\ Len(in.body) = 0 => in.cut <= 12 }

SniffStream(in) ==
    LET s == BuildStream(in)
    IN  [i \in 1..Len(s) |-> IF i \in 9..12 THEN in.form[i - 8] ELSE s[i]]

InitSniff ==
    /\ input \in SniffInputs
    /\ stream = SniffStream(input)
    /\ ignore \in BOOLEAN
    /\ pc = "start"
    /\ pos = 0
    /\ master = Null
    /\ byteorder = None
    /\ formtype = Null
    /\ ds64 = NoDs64
    /\ walk = None
    /\ yielded = <<>>
    /\ error = None
    /\ refpos = 0
    /\ fmtArgs = NoFmtArgs
    /\ fmtRet = NoFmtRet
    /\ bitrate = Null
    /\ bitrate_long = Null
    /\ legacyRet = NoFmtRet
    /\ AsmIdle
    /\ format = Null

NextSniff == Surface \/ Next

SpecSniff == InitSniff /\ [][NextSniff]_vars

\* the master tags of the signatures and the names of their containers
SnifferTags ==
    TagRIFF :> "RIFF" @@ TagRF64 :> "RF64" @@ TagBW64 :> "BW64"
      @@ TagRIFX :> "RIFX" @@ TagFFIR :> "FFIR"

\* the byte order the table of signatures gives a master tag
TableEndian(m) == IF m \in {TagRIFX, TagFFIR} THEN "big" ELSE "little"

(***************************************************************************)
(* C29: on a stream whose bytes 0-3 are one of RIFF, RF64, BW64, RIFX,     *)
(* FFIR and whose bytes 8-11 are WAVE, surface returns the format WAVE     *)
(* with that container and the byte order of the table, and the walker,    *)
(* once it has read the header of the same stream, has accepted the master *)
(* tag and resolved the same byte order.                                   *)
(***************************************************************************)
C29_SnifferWalkerAgreement ==
    (StreamRead(0, 4) \in DOMAIN SnifferTags /\ StreamRead(8, 4) = TagWAVE) =>
      /\ format # Null =>
           /\ format[1] # Null
           /\ format[1][1].base = "WAVE"
           /\ format[1][1].container = SnifferTags[StreamRead(0, 4)]
           /\ format[1][1].endian = TableEndian(StreamRead(0, 4))
      /\ pc # "start" =>
           /\ error \notin {"InvalidMaster", "Unsupported"}
           /\ byteorder = TableEndian(StreamRead(0, 4))

=============================================================================
